---- MODULE Spec2Model ----
(***************************************************************************)
(* p2pME node: permissioned ledger (js/blockchain.js), peer registry and    *)
(* message dispatch (js/network.js) and chunked file transfer               *)
(* (js/fileTransfer.js), modelled as one state machine per node.            *)
(*                                                                          *)
(* Values.  Node ids are the integers of Nodes (ordered like the code's     *)
(* string comparison).  A JavaScript null / undefined / '' / 0 field is 0   *)
(* for numbers and ids and <<>> for hashes, signatures and optional         *)
(* objects.  A hash is the tuple of what was hashed (SHA-256 taken as       *)
(* collision free), a signature is <<signer, signed data>>.                 *)
(***************************************************************************)
EXTENDS Integers, Sequences, FiniteSets, Bags, TLC

\* ------------------------------------------------------------------ bounds
\* clock ticks a behaviour may take, blocks a chain may hold, transaction
\* ids in use, frames a channel may hold
MaxTime == 1
MaxHeight == 2
MaxTxId == 1
MaxQueue == 2
\* files a peer serves with metadata and chunks, chunks of such a file
MaxDownloads == 1
MaxChunks == 2
\* WebSockets a node may make to the signaling server
MaxStarts == 2
\* ids Utils.generateId may return in each gap the ids of the nodes leave
MaxIds == 1
\* sync timeouts a node may have armed at once
MaxSync == 2
\* session objects of a node that have left its registry and have not closed
MaxDetached == 2

\* ------------------------------------------------------- program constants
\* milliseconds
leaderRotationInterval == 30000
blockTime == 10000
minVotes == 1
MaxBlockTxs == 10
maxConcurrentTransfers == 3
chunkSize == 65536

Nodes == {1, 2}
Self == 1
\* the other node
Peer == CHOOSE p \in Nodes : p # Self

\* a node id of the network of which only the transport is modelled: its
\* sessions and the frames sent to it
Other == Peer + 1
\* the ids Utils.generateId(16) may return to a node that asks for a new
\* one: between the id of Self and that of Peer, between the ids of Peer
\* and Other, and after them all, in the order After gives the ids
NewIds ==
    UNION {{Self * 10 + k, Peer * 10 + 5 + k, Other + 1 + k} :
              k \in 0..(MaxIds - 1)}

GenesisAuthor == 0
NoSig == <<>>
\* a hash that is null or undefined
NoHash == <<>>
\* a hash that is the empty string
EmptyHash == <<"">>
NoBlock == <<>>
NoLeader == 0

\* ----------------------------------------------------------------- helpers
Range(s) == {s[i] : i \in 1..Len(s)}

Max(a, b) == IF a >= b THEN a ELSE b

Min(a, b) == IF a <= b THEN a ELSE b

\* Math.ceil(a / b) for a >= 0, b > 0
Ceil(a, b) == (a + b - 1) \div b

\* A JavaScript Map keyed by .id, kept in insertion order.
MapHas(m, id) == \E i \in 1..Len(m) : m[i].id = id

MapSet(m, v) ==
    IF MapHas(m, v.id)
    THEN [i \in 1..Len(m) |-> IF m[i].id = v.id THEN v ELSE m[i]]
    ELSE Append(m, v)

MapDelete(m, id) == SelectSeq(m, LAMBDA v : v.id # id)

MapGet(m, id) == m[CHOOSE i \in 1..Len(m) : m[i].id = id]

Ids(m) == {m[i].id : i \in 1..Len(m)}

\* ids are strings, and a number stands for the string of its decimal
\* digits: a > b on two ids compares them as strings, so that 10 orders
\* between 1 and 2, 25 between 2 and 3 and 4 after 3
After(a, b) ==
    LET RECURSIVE Digits(_)
        Digits(i) == IF i < 10 THEN <<i>>
                     ELSE Append(Digits(i \div 10), i % 10)
        x == Digits(a)
        y == Digits(b)
        shorter == IF Len(x) <= Len(y) THEN Len(x) ELSE Len(y)
        same == {k \in 0..shorter : \A i \in 1..k : x[i] = y[i]}
        prefix == CHOOSE k \in same : \A j \in same : j <= k
    IN  IF prefix = Len(x) THEN FALSE
        ELSE IF prefix = Len(y) THEN TRUE
        ELSE x[prefix + 1] > y[prefix + 1]

\* ------------------------------------------------------------------ crypto
\* CryptoManager (js/crypto.js) is not part of the sources; it is modelled
\* from the Crypto contract of the specification (section 4.1).
calculateHash(data) == data

signData(signer, data) == <<signer, data>>

verifySignature(data, signature, from) ==
    /\ Len(signature) = 2
    /\ signature[1] = from
    /\ signature[2] = data

\* ------------------------------------------------------------ transactions
\* createTransaction(from, ...) called on node n at time t, with the id the
\* UUID generator returned; signer = 0 gives the unsigned transaction and a
\* signer other than from a signature that does not verify.
MakeTx(id, from, t, signer) ==
    [id |-> id, from |-> from, timestamp |-> t,
     signature |-> IF signer = 0 THEN NoSig
                   ELSE signData(signer, <<from, t>>)]

validateTransaction(tx) ==
    IF tx.id = 0 \/ tx.from = 0 \/ tx.timestamp = 0 THEN FALSE
    ELSE IF tx.signature # NoSig
         \* the signed blob {from, to, data, amount, timestamp}; to, data and
         \* amount are payload only and are left out of the model
         THEN verifySignature(<<tx.from, tx.timestamp>>, tx.signature, tx.from)
         ELSE TRUE

\* ------------------------------------------------------------------ blocks
calculateBlockHash(block) ==
    calculateHash(<<block.index, block.timestamp, block.transactions,
                    block.previousHash, block.nonce, block.author>>)

createGenesisBlock(t) ==
    [index |-> 0, timestamp |-> t, transactions |-> <<>>,
     previousHash |-> <<"0">>, hash |-> calculateHash(<<"genesis">>),
     nonce |-> 0, author |-> GenesisAuthor, signature |-> NoSig]

\* A block with its hash computed over its fields and signed by signer
\* (0: unsigned).
MakeBlock(index, t, txs, previousHash, author, signer) ==
    LET unhashed == [index |-> index, timestamp |-> t, transactions |-> txs,
                     previousHash |-> previousHash, hash |-> NoHash,
                     nonce |-> 0, author |-> author, signature |-> NoSig]
        hashed == [unhashed EXCEPT !.hash = calculateBlockHash(unhashed)]
    IN  [hashed EXCEPT !.signature = IF signer = 0 THEN NoSig
                                     ELSE signData(signer, hashed.hash)]

\* The block proposeBlock builds on top of chain from the transactions txs.
NewBlock(chain, txs, t, author) ==
    LET previousBlock == chain[Len(chain)]
    IN  MakeBlock(previousBlock.index + 1, t, txs, previousBlock.hash,
                  author, author)

\* validateBlock without the comparison of previousHash with the tip's hash
validateBlockNoLink(chain, block) ==
    IF \/ block.index = 0 \/ block.timestamp = 0
       \/ block.hash \in {NoHash, EmptyHash}
       \/ block.previousHash \in {NoHash, EmptyHash} THEN FALSE
    ELSE IF block.index # Len(chain) THEN FALSE
    ELSE IF block.hash # calculateBlockHash(block) THEN FALSE
    ELSE IF /\ block.signature # NoSig
            /\ ~verifySignature(block.hash, block.signature, block.author)
         THEN FALSE
    ELSE \A i \in 1..Len(block.transactions) :
             validateTransaction(block.transactions[i])

validateBlock(chain, block) ==
    IF \/ block.index = 0 \/ block.timestamp = 0
       \/ block.hash \in {NoHash, EmptyHash}
       \/ block.previousHash \in {NoHash, EmptyHash} THEN FALSE
    ELSE IF block.index # Len(chain) THEN FALSE
    ELSE IF block.previousHash # chain[Len(chain)].hash THEN FALSE
    ELSE IF block.hash # calculateBlockHash(block) THEN FALSE
    ELSE IF /\ block.signature # NoSig
            /\ ~verifySignature(block.hash, block.signature, block.author)
         THEN FALSE
    ELSE \A i \in 1..Len(block.transactions) :
             validateTransaction(block.transactions[i])

\* addBlock leaving the mempool as it is
KeepMempool(m, block) == m

\* mempool.delete(transaction.id) for every transaction of the block
PurgeMempool(m, block) ==
    SelectSeq(m, LAMBDA tx : tx.id \notin Ids(block.transactions))

\* ------------------------------------------------------------------- state
VARIABLES
    now,               \* Date.now(), the same clock on every node
    blockchain,        \* [node -> Seq(block)]
    mempool,           \* [node -> Map id -> transaction, insertion order]
    whitelistedPeers,  \* [node -> Set of node ids, insertion order]
    currentLeader,     \* [node -> node id or NoLeader]
    isLeader,          \* [node -> BOOLEAN]
    leaderTimer,       \* [node -> the rotation interval is armed]
    blockTimer,        \* [node -> the block production interval is armed]
    consensusState,    \* [node -> "idle" | "proposing"]
    pendingBlock,      \* [node -> <<>> or <<block>>]
    votes,             \* [node -> set of [blockHash, voter, approve]]
    voteTimer,         \* [node -> armed 5 s vote timeouts]
    syncTimer,         \* [node -> the peers of its armed 1 s sync timeouts, in the order armed]
    peers,             \* [node -> Map peerId -> session object]
    connectionAttempts,\* [node -> set of the keys <<nodeId, peerId>> of its
                       \* dials in flight]
    inflight,          \* [<<from, to>> -> Seq(frame)] sent, not yet received
    detached,          \* [node -> bag of the session objects it has made that
                       \* are no longer in its registry and whose 'close'
                       \* callback has not run]
    isRunning,         \* [node -> startNode has run and stopNode has not]
    heartbeatTimer,    \* [node -> number of armed heartbeat intervals]
    webSockets,        \* [node -> the WebSockets connectToSignalingServer has
                       \* made, in the order made: state is "connecting" or
                       \* "open" as readyState is, "failing" when the error
                       \* and close events of a failed connection are to come,
                       \* "closing" when the close event is to come, "closed"
                       \* after it; awaited: a startNode waits for the promise;
                       \* timeout: the 10 s timeout is armed; reconnect: the
                       \* 5 s timeout onclose sets is armed]
    signalingServer,   \* [node -> the index in webSockets of
                       \* this.signalingServer, 0 for null]
    nodeId,            \* [node -> NetworkManager.nodeId]
    sharedFiles,       \* [node -> Map fileId -> file this node offers]
    availableFiles,    \* [node -> Map fileId -> offer received from a peer]
    downloadProgress,  \* [node -> fileId -> [received, total]]
    activeTransfers,   \* [node -> set of file ids requested, not ended]
    activeDownloads,   \* [node -> fileId -> download whose metadata came]
    uploadProgress,    \* [node -> fileId -> bytes sent]
    uploads,           \* [node -> Seq of the sendFile runs that are suspended]
    clients,           \* signaling server: Map nodeId -> connection, in
                       \* insertion order
    sockets,           \* signaling server: [connection -> its readyState and
                       \* the nodeId its handlers hold]
    signalled,         \* signaling server: the messages its last step sent,
                       \* each <<connection, type, nodeId or peer list>>
    delivered,         \* files the last step handed to Utils.downloadFile
    emitted,           \* events the last step emitted to observers, those
                       \* of leader-changed, whitelist-updated,
                       \* blockchain-synced and log left out
    thrown             \* the error the last call threw, or ""

ledgerVars == <<blockchain, mempool, whitelistedPeers, currentLeader, isLeader,
                leaderTimer, blockTimer, consensusState, pendingBlock, votes,
                voteTimer, syncTimer>>

netVars == <<peers, connectionAttempts, inflight, detached>>

nodeVars == <<isRunning, heartbeatTimer, webSockets, signalingServer, nodeId>>

fileVars == <<sharedFiles, availableFiles, downloadProgress, activeTransfers,
              activeDownloads, uploadProgress, uploads>>

serverVars == <<clients, sockets, signalled>>

vars == <<now, nodeVars, ledgerVars, netVars, fileVars, serverVars, delivered,
          emitted, thrown>>

\* createTransaction(from, ...) called on node n at time t with the id the
\* UUID generator returned: the node signs what it sends in its own name
createTransaction(n, id, from, t) ==
    MakeTx(id, from, t, IF from = nodeId[n] THEN from ELSE 0)

\* the clock is read at the granularity of a leader slot
StartTime == leaderRotationInterval

\* ----------------------------------------------------------------- network
\* peer && peer.connected, in the peer table ps of a node
IsConnected(ps, p) == MapHas(ps, p) /\ MapGet(ps, p).connected

Connected(n, p) == IsConnected(peers[n], p)

\* sendToPeer / broadcast of node n whose peer table is ps, on the frames
\* in flight fl
sendToPeer(fl, ps, n, p, msg) ==
    IF IsConnected(ps, p) THEN [fl EXCEPT ![<<n, p>>] = Append(@, msg)] ELSE fl

broadcast(fl, ps, n, msg) ==
    [ch \in DOMAIN fl |->
        IF ch[1] = n /\ IsConnected(ps, ch[2]) THEN Append(fl[ch], msg)
        ELSE fl[ch]]

\* every channel out of n has room for k more frames
Room(n, k) == \A p \in Nodes : Len(inflight[<<n, p>>]) + k <= MaxQueue

\* one event: the node, the emitter ("network", "blockchain" or
\* "fileTransfer"), the event name and the id it is about
Emit(n, emitter, event, arg) == <<n, emitter, event, arg>>

Emitted(n, emitter, event, arg) ==
    \E i \in 1..Len(emitted) : emitted[i] = <<n, emitter, event, arg>>

\* ---------------------------------------------------------- leader schedule
\* the schedule, were it to rotate by the time slot alone
LeaderOfSlot(whitelistedArray, blockHeight, t) ==
    whitelistedArray[((t \div leaderRotationInterval) % Len(whitelistedArray)) + 1]

LeaderOf(whitelistedArray, blockHeight, t) ==
    LET timeSlot == t \div leaderRotationInterval
        leaderIndex == (blockHeight + timeSlot) % Len(whitelistedArray)
    IN  whitelistedArray[leaderIndex + 1]

\* updateLeader() of node n whose peer table is ps: the caller leaves every
\* other variable unchanged.
updateLeader(n, ps) ==
    LET whitelistedArray == whitelistedPeers[n] IN
    IF Len(whitelistedArray) = 0
    THEN /\ currentLeader' = [currentLeader EXCEPT ![n] = NoLeader]
         /\ isLeader' = [isLeader EXCEPT ![n] = FALSE]
         /\ UNCHANGED <<blockTimer, inflight>>
    ELSE LET newLeader == LeaderOf(whitelistedArray, Len(blockchain[n]), now)
             wasLeader == isLeader[n]
             becomes == (newLeader = nodeId[n])
         IN  /\ currentLeader' = [currentLeader EXCEPT ![n] = newLeader]
             /\ isLeader' = [isLeader EXCEPT ![n] = becomes]
             /\ blockTimer' = [blockTimer EXCEPT ![n] =
                                 IF becomes /\ ~wasLeader THEN TRUE
                                 ELSE IF ~becomes /\ wasLeader THEN FALSE
                                 ELSE @]
             /\ inflight' = IF becomes /\ ~wasLeader
                             THEN broadcast(inflight, ps, n,
                                     [type |-> "leader-announcement",
                                      leader |-> nodeId[n],
                                      blockHeight |-> Len(blockchain[n])])
                             ELSE inflight

\* ------------------------------------------------------- ledger operations
addWhitelistedPeer(n, peerId) ==
    /\ whitelistedPeers' = [whitelistedPeers EXCEPT ![n] =
           \* a Set of node ids, kept in insertion order
           IF peerId \in Range(@) THEN @ ELSE Append(@, peerId)]
    /\ emitted' = <<>>
    /\ thrown' = ""
    /\ UNCHANGED <<serverVars, nodeVars, now, blockchain, mempool, currentLeader, isLeader,
                   leaderTimer, blockTimer, consensusState, pendingBlock,
                   votes, voteTimer, syncTimer, netVars,
                   fileVars>>
    /\ delivered' = <<>>

removeWhitelistedPeer(n, peerId) ==
    /\ whitelistedPeers' = [whitelistedPeers EXCEPT ![n] =
           SelectSeq(@, LAMBDA y : y # peerId)]
    /\ emitted' = <<>>
    /\ thrown' = ""
    /\ UNCHANGED <<serverVars, nodeVars, now, blockchain, mempool, currentLeader, isLeader,
                   leaderTimer, blockTimer, consensusState, pendingBlock,
                   votes, voteTimer, syncTimer, netVars,
                   fileVars>>
    /\ delivered' = <<>>

\* the setInterval callback of startLeaderRotation
LeaderTimerTick(n) ==
    /\ leaderTimer[n]
    /\ Room(n, 1)
    /\ updateLeader(n, peers[n])
    /\ emitted' = <<>>
    /\ thrown' = ""
    /\ UNCHANGED <<detached, serverVars, nodeVars, now, blockchain, mempool, whitelistedPeers, leaderTimer,
                   consensusState, pendingBlock, votes, voteTimer, syncTimer,
                   peers, connectionAttempts,
                   fileVars>>
    /\ delivered' = <<>>

submitTransaction(n, transaction) ==
    /\ Room(n, 1)
    /\ IF ~validateTransaction(transaction)
       THEN /\ thrown' = "InvalidTransaction"
            /\ emitted' = <<>>
            /\ UNCHANGED <<mempool, inflight>>
       ELSE /\ mempool' = [mempool EXCEPT ![n] = MapSet(@, transaction)]
            /\ inflight' = broadcast(inflight, peers[n], n,
                               [type |-> "transaction",
                                transaction |-> transaction])
            /\ emitted' = <<Emit(n, "blockchain", "transaction-submitted", transaction.id)>>
            /\ thrown' = ""
    /\ UNCHANGED <<detached, serverVars, nodeVars, now, blockchain, whitelistedPeers, currentLeader, isLeader,
                   leaderTimer, blockTimer, consensusState, pendingBlock,
                   votes, voteTimer, syncTimer, peers,
                   connectionAttempts,
                   fileVars>>
    /\ delivered' = <<>>

\* BlockchainManager.handleTransaction({peerId, transaction})
handleTransaction(n, peerId, transaction) ==
    /\ IF ~validateTransaction(transaction) \/ MapHas(mempool[n], transaction.id)
       THEN /\ emitted' = <<>>
            /\ UNCHANGED mempool
       ELSE /\ mempool' = [mempool EXCEPT ![n] = MapSet(@, transaction)]
            /\ emitted' = <<Emit(n, "blockchain", "transaction-received", transaction.id)>>
    /\ thrown' = ""
    /\ UNCHANGED <<serverVars, nodeVars, now, blockchain, whitelistedPeers, currentLeader, isLeader,
                   leaderTimer, blockTimer, consensusState, pendingBlock,
                   votes, voteTimer, syncTimer, netVars,
                   fileVars>>
    /\ delivered' = <<>>

recordVote(vs, vote) ==
    {v \in vs : ~(v.blockHash = vote.blockHash /\ v.voter = vote.voter)}
        \cup {vote}

\* what recordVote throws once the vote is stored: its log line reads the
\* length of the hash (Utils.truncateHash), a TypeError on null or undefined
recordVoteThrows(blockHash) == IF blockHash = NoHash THEN "TypeError" ELSE ""

Vote(blockHash, voter, approve) ==
    [blockHash |-> blockHash, voter |-> voter, approve |-> approve]

\* proposeBlock(): runs to its end without suspending (it awaits nothing).
proposeBlock(n) ==
    LET transactions == SubSeq(mempool[n], 1, Min(MaxBlockTxs, Len(mempool[n])))
        newBlock == NewBlock(blockchain[n], transactions, now, nodeId[n])
        vote == Vote(newBlock.hash, nodeId[n], TRUE)
    IN  /\ consensusState' = [consensusState EXCEPT ![n] = "proposing"]
        /\ pendingBlock' = [pendingBlock EXCEPT ![n] = <<newBlock>>]
        /\ votes' = [votes EXCEPT ![n] = recordVote({}, vote)]
        /\ inflight' = broadcast(
                           broadcast(inflight, peers[n], n,
                               [type |-> "block-proposal", block |-> newBlock]),
                           peers[n], n, [type |-> "block-vote", vote |-> vote])
        /\ voteTimer' = [voteTimer EXCEPT ![n] = @ + 1]
        /\ emitted' = <<>>

\* the setInterval callback of startBlockProduction
BlockTimerTick(n) ==
    /\ blockTimer[n]
    /\ Room(n, 2)
    /\ Len(blockchain[n]) < MaxHeight
    /\ IF isLeader[n] /\ consensusState[n] = "idle"
       THEN proposeBlock(n)
       ELSE /\ emitted' = <<>>
            /\ UNCHANGED <<consensusState, pendingBlock, votes, voteTimer,
                           inflight>>
    /\ thrown' = ""
    /\ UNCHANGED <<detached, serverVars, nodeVars, now, blockchain, mempool, whitelistedPeers, currentLeader,
                   isLeader, leaderTimer, blockTimer, syncTimer, peers,
                   connectionAttempts,
                   fileVars>>
    /\ delivered' = <<>>

\* requiredVotes, were it minVotes alone
requiredVotesMin(n) == minVotes

requiredVotes(n) == Max(minVotes, Ceil(Len(whitelistedPeers[n]), 2))

approveCount(n, blockHash) ==
    Cardinality({v \in votes[n] : v.blockHash = blockHash /\ v.approve})

\* addBlock, were it to fill the block again from the mempool as it is when
\* the vote window ends
addBlockRefilled(n, block) ==
    LET refilled == NewBlock(blockchain[n],
                        SubSeq(mempool[n], 1, Min(MaxBlockTxs, Len(mempool[n]))),
                        block.timestamp, block.author)
    IN  IF ~validateBlock(blockchain[n], refilled)
        THEN /\ emitted' = <<>>
             /\ UNCHANGED <<blockchain, mempool, inflight>>
        ELSE /\ blockchain' = [blockchain EXCEPT ![n] = Append(@, refilled)]
             /\ mempool' = [mempool EXCEPT ![n] = PurgeMempool(@, refilled)]
             /\ emitted' = <<Emit(n, "blockchain", "block-added", refilled.index)>>
             /\ inflight' = broadcast(inflight, peers[n], n,
                                [type |-> "new-block", block |-> refilled])

\* addBlock(block), called by finalizeBlock
addBlock(n, block) ==
    IF ~validateBlock(blockchain[n], block)
    THEN /\ emitted' = <<>>
         /\ UNCHANGED <<blockchain, mempool, inflight>>
    ELSE /\ blockchain' = [blockchain EXCEPT ![n] = Append(@, block)]
         /\ mempool' = [mempool EXCEPT ![n] = PurgeMempool(@, block)]
         /\ emitted' = <<Emit(n, "blockchain", "block-added", block.index)>>
         /\ inflight' = broadcast(inflight, peers[n], n,
                            [type |-> "new-block", block |-> block])

finalizeBlock(n) ==
    IF pendingBlock[n] = NoBlock
    THEN /\ consensusState' = [consensusState EXCEPT ![n] = "idle"]
         /\ emitted' = <<>>
         /\ UNCHANGED <<blockchain, mempool, inflight, pendingBlock>>
    ELSE LET block == pendingBlock[n][1] IN
         IF {v \in votes[n] : v.blockHash = block.hash} = {}
         THEN /\ consensusState' = [consensusState EXCEPT ![n] = "idle"]
              /\ emitted' = <<>>
              /\ UNCHANGED <<blockchain, mempool, inflight, pendingBlock>>
         ELSE /\ IF approveCount(n, block.hash) >= requiredVotes(n)
                 THEN addBlock(n, block)
                 ELSE /\ emitted' = <<>>
                      /\ UNCHANGED <<blockchain, mempool, inflight>>
              /\ pendingBlock' = [pendingBlock EXCEPT ![n] = NoBlock]
              /\ consensusState' = [consensusState EXCEPT ![n] = "idle"]

\* the setTimeout callback armed by proposeBlock
VoteTimeout(n) ==
    /\ voteTimer[n] > 0
    /\ Room(n, 1)
    /\ voteTimer' = [voteTimer EXCEPT ![n] = @ - 1]
    /\ IF consensusState[n] = "proposing"
       THEN finalizeBlock(n)
       ELSE /\ emitted' = <<>>
            /\ UNCHANGED <<blockchain, mempool, inflight, pendingBlock,
                           consensusState>>
    /\ thrown' = ""
    /\ UNCHANGED <<detached, serverVars, nodeVars, now, whitelistedPeers, currentLeader, isLeader, leaderTimer,
                   blockTimer, votes, syncTimer, peers,
                   connectionAttempts,
                   fileVars>>
    /\ delivered' = <<>>

\* the loop of handleSyncResponse, were it to put a block whose index is
\* below the height in the place of the block it holds there
RECURSIVE ApplySyncReorg(_, _, _)
ApplySyncReorg(chain, pool, blocks) ==
    IF blocks = <<>> THEN [chain |-> chain, pool |-> pool, addedBlocks |-> 0]
    ELSE LET block == Head(blocks) IN
         IF validateBlock(chain, block)
         THEN LET rest == ApplySyncReorg(Append(chain, block),
                                         PurgeMempool(pool, block), Tail(blocks))
              IN  [rest EXCEPT !.addedBlocks = @ + 1]
         ELSE IF block.index >= 1 /\ block.index < Len(chain)
         THEN ApplySyncReorg(Append(SubSeq(chain, 1, block.index), block),
                             pool, Tail(blocks))
         ELSE ApplySyncReorg(chain, pool, Tail(blocks))

\* the loop of handleSyncResponse over the received blocks
RECURSIVE ApplySync(_, _, _)
ApplySync(chain, pool, blocks) ==
    IF blocks = <<>> THEN [chain |-> chain, pool |-> pool, addedBlocks |-> 0]
    ELSE LET block == Head(blocks) IN
         IF validateBlock(chain, block)
         THEN LET rest == ApplySync(Append(chain, block),
                                    PurgeMempool(pool, block), Tail(blocks))
              IN  [rest EXCEPT !.addedBlocks = @ + 1]
         ELSE ApplySync(chain, pool, Tail(blocks))

handleSyncResponse(n, peerId, blocks) ==
    LET r == ApplySync(blockchain[n], mempool[n], blocks) IN
    /\ blockchain' = [blockchain EXCEPT ![n] = r.chain]
    /\ mempool' = [mempool EXCEPT ![n] = r.pool]
    /\ emitted' = <<>>
    /\ thrown' = ""
    /\ UNCHANGED <<serverVars, nodeVars, now, whitelistedPeers, currentLeader, isLeader, leaderTimer,
                   blockTimer, consensusState, pendingBlock, votes, voteTimer,
                   syncTimer, netVars,
                   fileVars>>
    /\ delivered' = <<>>

\* voteForBlock(blockHash, approve) of node n on the recorded votes vs and
\* the frames in flight fl: the vote is broadcast, then recorded
voteForBlock(vs, fl, n, blockHash, approve) ==
    LET vote == Vote(blockHash, nodeId[n], approve)
    IN  [votes |-> recordVote(vs, vote),
         inflight |-> broadcast(fl, peers[n], n,
                          [type |-> "block-vote", vote |-> vote])]

\* handleBlockProposal without the comparison of the sender with the leader
handleBlockProposalAnyPeer(n, peerId, block) ==
    /\ Room(n, 1)
    /\ LET r == voteForBlock(votes[n], inflight, n, block.hash,
                             validateBlock(blockchain[n], block))
       IN  /\ votes' = [votes EXCEPT ![n] = r.votes]
           /\ inflight' = r.inflight
    /\ emitted' = <<>>
    /\ delivered' = <<>>
    /\ thrown' = recordVoteThrows(block.hash)
    /\ UNCHANGED <<detached, serverVars, nodeVars, now, blockchain, mempool, whitelistedPeers, currentLeader,
                   isLeader, leaderTimer, blockTimer, consensusState,
                   pendingBlock, voteTimer, syncTimer, peers,
                   connectionAttempts, fileVars>>

\* handleBlockProposal({peerId, block})
handleBlockProposal(n, peerId, block) ==
    /\ Room(n, 1)
    /\ IF peerId # currentLeader[n]
       THEN UNCHANGED <<votes, inflight>>
       ELSE LET r == voteForBlock(votes[n], inflight, n, block.hash,
                                  validateBlock(blockchain[n], block))
            IN  /\ votes' = [votes EXCEPT ![n] = r.votes]
                /\ inflight' = r.inflight
    /\ emitted' = <<>>
    /\ delivered' = <<>>
    /\ thrown' = IF peerId = currentLeader[n]
                 THEN recordVoteThrows(block.hash) ELSE ""
    /\ UNCHANGED <<detached, serverVars, nodeVars, now, blockchain, mempool, whitelistedPeers, currentLeader,
                   isLeader, leaderTimer, blockTimer, consensusState,
                   pendingBlock, voteTimer, syncTimer, peers,
                   connectionAttempts, fileVars>>

\* handleBlockVote({peerId, vote})
handleBlockVote(n, peerId, vote) ==
    /\ votes' = [votes EXCEPT ![n] =
                    IF peerId \in Range(whitelistedPeers[n])
                    THEN recordVote(@, vote) ELSE @]
    /\ emitted' = <<>>
    /\ delivered' = <<>>
    /\ thrown' = IF peerId \in Range(whitelistedPeers[n])
                 THEN recordVoteThrows(vote.blockHash) ELSE ""
    /\ UNCHANGED <<serverVars, nodeVars, now, blockchain, mempool, whitelistedPeers, currentLeader,
                   isLeader, leaderTimer, blockTimer, consensusState,
                   pendingBlock, voteTimer, syncTimer, netVars, fileVars>>

\* handleLeaderAnnouncement({peerId, leader, blockHeight, timestamp})
handleLeaderAnnouncement(n, peerId, leader, blockHeight) ==
    /\ IF leader \in Range(whitelistedPeers[n]) /\ blockHeight >= Len(blockchain[n])
       THEN /\ currentLeader' = [currentLeader EXCEPT ![n] = leader]
            /\ isLeader' = [isLeader EXCEPT ![n] = (leader = nodeId[n])]
       ELSE UNCHANGED <<currentLeader, isLeader>>
    /\ emitted' = <<>>
    /\ delivered' = <<>>
    /\ thrown' = ""
    /\ UNCHANGED <<serverVars, nodeVars, now, blockchain, mempool, whitelistedPeers, leaderTimer,
                   blockTimer, consensusState, pendingBlock, votes, voteTimer,
                   syncTimer, netVars, fileVars>>

\* ----------------------------------------------------------- file transfer
\* A JavaScript Map or Set whose iteration order no modelled operation
\* observes: a function on the set of its keys.
EmptyMap == [k \in {} |-> 0]

Put(m, k, v) == [x \in DOMAIN m \cup {k} |-> IF x = k THEN v ELSE m[x]]

Del(m, k) == [x \in DOMAIN m \ {k} |-> m[x]]

\* Bytes are a sequence of segments <<content id, start, end>>, adjacent
\* segments of one content merged: the bytes start..end-1 of that content.
Bytes(c, start, end) == IF start >= end THEN <<>> ELSE << <<c, start, end>> >>

RECURSIVE byteLength(_)
byteLength(b) ==
    IF b = <<>> THEN 0 ELSE (Head(b)[3] - Head(b)[2]) + byteLength(Tail(b))

Join(a, b) ==
    IF a = <<>> THEN b
    ELSE IF b = <<>> THEN a
    ELSE LET x == a[Len(a)]
             y == b[1]
         IN  IF x[1] = y[1] /\ x[3] = y[2]
             THEN SubSeq(a, 1, Len(a) - 1) \o << <<x[1], x[2], y[3]>> >> \o Tail(b)
             ELSE a \o b

\* new Blob(chunks): the chunks one after the other
RECURSIVE Blob(_)
Blob(chunks) ==
    IF chunks = <<>> THEN <<>> ELSE Join(Head(chunks), Blob(Tail(chunks)))

\* Utils.calculateFileHash: SHA-256 of the content, taken as collision free
calculateFileHash(content) == <<"sha256", content>>

\* btoa over the bytes; atob throws on what is not base64
arrayBufferToBase64(buffer) == <<"base64", buffer>>

IsBase64(str) == Len(str) = 2 /\ str[1] = "base64"

base64ToArrayBuffer(str) == str[2]

\* handleFileOffer without the test of availableFiles.has(fileId)
FileOfferAgain(n, files, data) ==
    [files |-> MapSet(files,
                      [id |-> data.fileId, size |-> data.fileSize,
                       hash |-> data.fileHash, peerId |-> data.peerId]),
     events |-> <<Emit(n, "fileTransfer", "file-available", data.fileId)>>]

\* FileTransferManager.handleFileOffer on the catalog files of node n: the
\* catalog and the events it leaves
FileOffer(n, files, data) ==
    IF MapHas(files, data.fileId)
    THEN [files |-> files, events |-> <<>>]
    ELSE [files |-> MapSet(files,
                           [id |-> data.fileId, size |-> data.fileSize,
                            hash |-> data.fileHash, peerId |-> data.peerId]),
          events |-> <<Emit(n, "fileTransfer", "file-available", data.fileId)>>]

handleFileOffer(n, data) ==
    /\ availableFiles' = [availableFiles EXCEPT ![n] = FileOffer(n, @, data).files]
    /\ emitted' = FileOffer(n, availableFiles[n], data).events
    /\ delivered' = <<>>
    /\ thrown' = ""
    /\ UNCHANGED <<uploadProgress, uploads, serverVars, nodeVars, now, ledgerVars, netVars, sharedFiles, downloadProgress,
                   activeTransfers, activeDownloads>>

\* requestFile without the test of activeTransfers.size
requestFileNoCap(n, fileId) ==
    /\ Room(n, 1)
    /\ IF fileId \notin Ids(availableFiles[n])
       THEN /\ thrown' = "FileNotFound"
            /\ emitted' = <<>>
            /\ UNCHANGED <<activeTransfers, downloadProgress, inflight>>
       ELSE LET fileInfo == MapGet(availableFiles[n], fileId) IN
            IF ~Connected(n, fileInfo.peerId)
            THEN /\ activeTransfers' = [activeTransfers EXCEPT ![n] = @ \ {fileId}]
                 /\ downloadProgress' = [downloadProgress EXCEPT ![n] = Del(@, fileId)]
                 /\ thrown' = "RequestNotSent"
                 /\ emitted' = <<>>
                 /\ UNCHANGED inflight
            ELSE /\ activeTransfers' = [activeTransfers EXCEPT ![n] = @ \cup {fileId}]
                 /\ downloadProgress' = [downloadProgress EXCEPT ![n] =
                        Put(@, fileId, [received |-> 0, total |-> fileInfo.size])]
                 /\ inflight' = sendToPeer(inflight, peers[n], n, fileInfo.peerId,
                                    [type |-> "file-request", fileId |-> fileId,
                                     requesterId |-> nodeId[n]])
                 /\ emitted' = <<Emit(n, "fileTransfer", "download-started", fileId)>>
                 /\ thrown' = ""
    /\ delivered' = <<>>
    /\ UNCHANGED <<uploadProgress, uploads, detached, serverVars, nodeVars, now, ledgerVars, peers, connectionAttempts, sharedFiles,
                   availableFiles, activeDownloads>>

requestFile(n, fileId) ==
    /\ Room(n, 1)
    /\ IF fileId \notin Ids(availableFiles[n])
       THEN /\ thrown' = "FileNotFound"
            /\ emitted' = <<>>
            /\ UNCHANGED <<activeTransfers, downloadProgress, inflight>>
       ELSE LET fileInfo == MapGet(availableFiles[n], fileId) IN
            IF Cardinality(activeTransfers[n]) >= maxConcurrentTransfers
            THEN /\ thrown' = "TooManyTransfers"
                 /\ emitted' = <<>>
                 /\ UNCHANGED <<activeTransfers, downloadProgress, inflight>>
            ELSE IF ~Connected(n, fileInfo.peerId)
            THEN /\ activeTransfers' = [activeTransfers EXCEPT ![n] = @ \ {fileId}]
                 /\ downloadProgress' = [downloadProgress EXCEPT ![n] = Del(@, fileId)]
                 /\ thrown' = "RequestNotSent"
                 /\ emitted' = <<>>
                 /\ UNCHANGED inflight
            ELSE /\ activeTransfers' = [activeTransfers EXCEPT ![n] = @ \cup {fileId}]
                 /\ downloadProgress' = [downloadProgress EXCEPT ![n] =
                        Put(@, fileId, [received |-> 0, total |-> fileInfo.size])]
                 /\ inflight' = sendToPeer(inflight, peers[n], n, fileInfo.peerId,
                                    [type |-> "file-request", fileId |-> fileId,
                                     requesterId |-> nodeId[n]])
                 /\ emitted' = <<Emit(n, "fileTransfer", "download-started", fileId)>>
                 /\ thrown' = ""
    /\ delivered' = <<>>
    /\ UNCHANGED <<uploadProgress, uploads, detached, serverVars, nodeVars, now, ledgerVars, peers, connectionAttempts, sharedFiles,
                   availableFiles, activeDownloads>>

handleFileMetadata(n, peerId, data) ==
    /\ activeDownloads' = [activeDownloads EXCEPT ![n] =
           Put(@, data.fileId,
               [fileId |-> data.fileId, fileSize |-> data.fileSize,
                totalChunks |-> data.totalChunks, receivedChunks |-> EmptyMap,
                peerId |-> peerId])]
    /\ emitted' = <<Emit(n, "fileTransfer", "download-metadata", data.fileId)>>
    /\ delivered' = <<>>
    /\ thrown' = ""
    /\ UNCHANGED <<uploadProgress, uploads, serverVars, nodeVars, now, ledgerVars, netVars, sharedFiles, availableFiles,
                   downloadProgress, activeTransfers>>

\* the chunks 0 .. totalChunks-1 of receivedChunks in order
RECURSIVE ChunksInOrder(_, _, _)
ChunksInOrder(receivedChunks, i, totalChunks) ==
    IF i >= totalChunks THEN <<>>
    ELSE <<receivedChunks[i]>> \o ChunksInOrder(receivedChunks, i + 1, totalChunks)

\* file.slice(start, end) of a File, whose content is one run of bytes
Slice(content, start, end) ==
    IF content = <<>> THEN <<>>
    ELSE Bytes(content[1][1], content[1][2] + start,
               Min(content[1][2] + end, content[1][3]))

\* Utils.generateUUID() returns an id that no file has had: no table of a
\* node and no frame in flight holds it
FreshFileId(fileId) ==
    /\ \A m \in Nodes :
          /\ ~MapHas(sharedFiles[m], fileId)
          /\ ~MapHas(availableFiles[m], fileId)
          /\ fileId \notin activeTransfers[m]
          /\ fileId \notin DOMAIN downloadProgress[m]
                              \cup DOMAIN activeDownloads[m]
                              \cup DOMAIN uploadProgress[m]
          /\ \A i \in 1..Len(uploads[m]) : uploads[m][i].fileInfo.id # fileId
    /\ \A ch \in DOMAIN inflight : \A i \in 1..Len(inflight[ch]) :
          "fileId" \in DOMAIN inflight[ch][i] => inflight[ch][i].fileId # fileId

\* shareFile(file): fileId is the UUID it draws, content and size the
\* File's.  The FileReader of Utils.calculateFileHash reads the file, or
\* raises 'error': the promise of the hash rejects, and the catch of
\* shareFile throws the error on before anything is stored, sent or emitted
shareFile(n, fileId, content) ==
    /\ FreshFileId(fileId)
    /\ \/ /\ Room(n, 1)
          /\ LET fileInfo == [id |-> fileId, size |-> byteLength(content),
                              hash |-> calculateFileHash(content),
                              file |-> content, downloadCount |-> 0]
             IN  /\ sharedFiles' = [sharedFiles EXCEPT ![n] = MapSet(@, fileInfo)]
                 /\ inflight' = broadcast(inflight, peers[n], n,
                                    [type |-> "file-offer", fileId |-> fileId,
                                     fileSize |-> fileInfo.size,
                                     fileHash |-> fileInfo.hash])
          /\ emitted' = <<Emit(n, "fileTransfer", "file-shared", fileId)>>
          /\ thrown' = ""
       \/ /\ thrown' = "NotReadableError"
          /\ emitted' = <<>>
          /\ UNCHANGED <<sharedFiles, inflight>>
    /\ delivered' = <<>>
    /\ UNCHANGED <<uploadProgress, uploads, detached, serverVars, nodeVars, now, ledgerVars, peers, connectionAttempts,
                   availableFiles, downloadProgress, activeTransfers,
                   activeDownloads>>

\* stopSharingFile(fileId)
stopSharingFile(n, fileId) ==
    /\ Room(n, 1)
    /\ IF MapHas(sharedFiles[n], fileId)
       THEN /\ sharedFiles' = [sharedFiles EXCEPT ![n] = MapDelete(@, fileId)]
            /\ inflight' = broadcast(inflight, peers[n], n,
                               [type |-> "file-unavailable", fileId |-> fileId])
            /\ emitted' = <<Emit(n, "fileTransfer", "file-unshared", fileId)>>
       ELSE /\ emitted' = <<>>
            /\ UNCHANGED <<sharedFiles, inflight>>
    /\ delivered' = <<>>
    /\ thrown' = ""
    /\ UNCHANGED <<now, nodeVars, ledgerVars, serverVars, peers, connectionAttempts,
                   detached, availableFiles, downloadProgress, activeTransfers,
                   activeDownloads, uploadProgress, uploads>>

\* sendFile, were it to send the full chunks only
TotalChunksFull(size) == size \div chunkSize

\* Math.ceil(file.size / this.chunkSize)
TotalChunks(size) == Ceil(size, chunkSize)

\* the file-chunk frames of sendFile from chunkIndex on
RECURSIVE ChunkFrames(_, _, _)
ChunkFrames(fileInfo, chunkIndex, totalChunks) ==
    IF chunkIndex >= totalChunks THEN <<>>
    ELSE LET start == chunkIndex * chunkSize
             end == Min(start + chunkSize, fileInfo.size)
             chunk == Slice(fileInfo.file, start, end)
         IN  <<[type |-> "file-chunk", fileId |-> fileInfo.id,
                chunkIndex |-> chunkIndex,
                chunkData |-> arrayBufferToBase64(chunk),
                isLastChunk |-> (chunkIndex = totalChunks - 1)]>>
                 \o ChunkFrames(fileInfo, chunkIndex + 1, totalChunks)

\* the frames sendFile hands to sendToPeer, in order
FileFrames(fileInfo) ==
    LET totalChunks == TotalChunks(fileInfo.size)
    IN  <<[type |-> "file-metadata", fileId |-> fileInfo.id,
           fileSize |-> fileInfo.size, totalChunks |-> totalChunks]>>
            \o ChunkFrames(fileInfo, 0, totalChunks)

\* handleFileRequest({peerId, fileId}) up to the first suspension of the
\* sendFile it awaits, on the frames in flight fl: the metadata frame is
\* sent and the first chunk is being read; a file of no chunk is completed
\* at once.  What it leaves of the channels and of the tables of node n,
\* and the events.
FileRequest(fl, n, peerId, fileId) ==
    IF ~MapHas(sharedFiles[n], fileId)
    THEN [inflight |-> sendToPeer(fl, peers[n], n, peerId,
                           [type |-> "file-error", fileId |-> fileId]),
          sharedFiles |-> sharedFiles[n],
          uploadProgress |-> uploadProgress[n],
          uploads |-> uploads[n],
          events |-> <<>>]
    ELSE LET fileInfo == MapGet(sharedFiles[n], fileId)
             totalChunks == TotalChunks(fileInfo.size)
             sent == sendToPeer(fl, peers[n], n, peerId, Head(FileFrames(fileInfo)))
         IN  IF totalChunks = 0
             THEN [inflight |-> sent,
                   sharedFiles |-> MapSet(sharedFiles[n],
                       [fileInfo EXCEPT !.downloadCount = @ + 1]),
                   uploadProgress |-> Del(uploadProgress[n], fileId),
                   uploads |-> uploads[n],
                   events |-> <<Emit(n, "fileTransfer", "upload-started", fileId),
                                Emit(n, "fileTransfer", "upload-completed", fileId)>>]
             ELSE [inflight |-> sent,
                   sharedFiles |-> sharedFiles[n],
                   uploadProgress |-> Put(uploadProgress[n], fileId, 0),
                   uploads |-> Append(uploads[n],
                       [peerId |-> peerId, fileInfo |-> fileInfo,
                        chunkIndex |-> 0, sent |-> FALSE]),
                   events |-> <<Emit(n, "fileTransfer", "upload-started", fileId)>>]

handleFileRequest(n, peerId, fileId) ==
    /\ LET r == FileRequest(inflight, n, peerId, fileId)
       IN  /\ inflight' = r.inflight
           /\ sharedFiles' = [sharedFiles EXCEPT ![n] = r.sharedFiles]
           /\ uploadProgress' = [uploadProgress EXCEPT ![n] = r.uploadProgress]
           /\ uploads' = [uploads EXCEPT ![n] = r.uploads]
           /\ emitted' = r.events
    /\ delivered' = <<>>
    /\ thrown' = ""
    /\ UNCHANGED <<detached, serverVars, nodeVars, now, ledgerVars, peers, connectionAttempts,
                   availableFiles, downloadProgress, activeTransfers,
                   activeDownloads>>

\* the suspended sendFile run i of node n goes on to its next suspension or
\* to its end.  A run whose chunk chunkIndex is read (sent = FALSE) sends
\* it and updates the progress entry of the file, then sleeps if chunkIndex
\* is a multiple of 10; a run that has slept (sent = TRUE) reads the next
\* chunk.  After the last chunk the run deletes the progress entry and
\* handleFileRequest counts the download; a chunk that is not sent, or a
\* progress entry that is not there, ends the run with upload-failed and a
\* file-error frame.
sendFileResume(n, i) ==
    /\ i \in 1..Len(uploads[n])
    /\ LET run == uploads[n][i]
           fileInfo == run.fileInfo
           fileId == fileInfo.id
           totalChunks == TotalChunks(fileInfo.size)
           end == Min((run.chunkIndex + 1) * chunkSize, fileInfo.size)
           more == run.chunkIndex + 1 < totalChunks
           rest == SubSeq(uploads[n], 1, i - 1)
                       \o SubSeq(uploads[n], i + 1, Len(uploads[n]))
           chunkSent == sendToPeer(inflight, peers[n], n, run.peerId,
                            Head(ChunkFrames(fileInfo, run.chunkIndex, totalChunks)))
           progressed == <<Emit(n, "fileTransfer", "upload-progress", fileId)>>
           failed(fl) ==
               /\ inflight' = sendToPeer(fl, peers[n], n, run.peerId,
                                  [type |-> "file-error", fileId |-> fileId])
               /\ uploadProgress' = [uploadProgress EXCEPT ![n] = Del(@, fileId)]
               /\ uploads' = [uploads EXCEPT ![n] = rest]
               /\ emitted' = <<Emit(n, "fileTransfer", "upload-failed", fileId)>>
               /\ UNCHANGED sharedFiles
           completed(fl, events) ==
               /\ inflight' = fl
               /\ uploadProgress' = [uploadProgress EXCEPT ![n] = Del(@, fileId)]
               /\ uploads' = [uploads EXCEPT ![n] = rest]
               /\ emitted' = events
                      \o <<Emit(n, "fileTransfer", "upload-completed", fileId)>>
               /\ sharedFiles' = [sharedFiles EXCEPT ![n] =
                      IF MapHas(@, fileId)
                      THEN MapSet(@, [MapGet(@, fileId) EXCEPT !.downloadCount = @ + 1])
                      ELSE @]
           suspended(fl, progress, r, events) ==
               /\ inflight' = fl
               /\ uploadProgress' = [uploadProgress EXCEPT ![n] = progress]
               /\ uploads' = [uploads EXCEPT ![n][i] = r]
               /\ emitted' = events
               /\ UNCHANGED sharedFiles
           next == [run EXCEPT !.chunkIndex = @ + 1, !.sent = FALSE]
       IN  IF run.sent
           THEN IF more
                THEN suspended(inflight, uploadProgress[n], next, <<>>)
                ELSE completed(inflight, <<>>)
           ELSE IF ~Connected(n, run.peerId)
           THEN failed(inflight)
           ELSE IF fileId \notin DOMAIN uploadProgress[n]
           THEN failed(chunkSent)
           ELSE IF run.chunkIndex % 10 = 0
           THEN suspended(chunkSent, Put(uploadProgress[n], fileId, end),
                          [run EXCEPT !.sent = TRUE], progressed)
           ELSE IF more
           THEN suspended(chunkSent, Put(uploadProgress[n], fileId, end), next,
                          progressed)
           ELSE completed(chunkSent, progressed)
    /\ delivered' = <<>>
    /\ thrown' = ""
    /\ UNCHANGED <<detached, serverVars, nodeVars, now, ledgerVars, peers, connectionAttempts,
                   availableFiles, downloadProgress, activeTransfers,
                   activeDownloads>>

\* the read of the chunk the suspended sendFile run i of node n waits for
\* fails (reader.onerror rejects fileToArrayBuffer): the catch of sendFile
\* deletes the progress entry, emits upload-failed and throws, and the catch
\* of handleFileRequest sends a file-error frame
ChunkReadError(n, i) ==
    /\ i \in 1..Len(uploads[n])
    /\ ~uploads[n][i].sent
    /\ Room(n, 1)
    /\ LET run == uploads[n][i]
           fileId == run.fileInfo.id
       IN  /\ inflight' = sendToPeer(inflight, peers[n], n, run.peerId,
                              [type |-> "file-error", fileId |-> fileId])
           /\ uploadProgress' = [uploadProgress EXCEPT ![n] = Del(@, fileId)]
           /\ uploads' = [uploads EXCEPT ![n] =
                  SubSeq(@, 1, i - 1) \o SubSeq(@, i + 1, Len(@))]
           /\ emitted' = <<Emit(n, "fileTransfer", "upload-failed", fileId)>>
    /\ delivered' = <<>>
    /\ thrown' = ""
    /\ UNCHANGED <<detached, serverVars, nodeVars, now, ledgerVars, peers,
                   connectionAttempts, sharedFiles, availableFiles,
                   downloadProgress, activeTransfers, activeDownloads>>

\* handleFileChunk, were it to keep the chunks in a list
ChunkAppended(receivedChunks, chunkIndex, chunkBuffer) ==
    Put(receivedChunks,
        IF chunkIndex \in DOMAIN receivedChunks
        THEN Cardinality(DOMAIN receivedChunks) + MaxChunks + 1
        ELSE chunkIndex,
        chunkBuffer)

\* downloadInfo.receivedChunks.set(chunkIndex, chunkBuffer)
ChunkStored(receivedChunks, chunkIndex, chunkBuffer) ==
    Put(receivedChunks, chunkIndex, chunkBuffer)

\* handleFileChunk and, once receivedChunks.size = totalChunks, assembleFile
handleFileChunk(n, peerId, data) ==
    LET fileId == data.fileId IN
    /\ IF fileId \notin DOMAIN activeDownloads[n]
       THEN /\ emitted' = <<>>
            /\ delivered' = <<>>
            /\ UNCHANGED <<activeDownloads, activeTransfers, downloadProgress>>
       ELSE IF ~IsBase64(data.chunkData)
       THEN /\ emitted' = <<Emit(n, "fileTransfer", "download-failed", fileId)>>
            /\ delivered' = <<>>
            /\ UNCHANGED <<activeDownloads, activeTransfers, downloadProgress>>
       ELSE LET downloadInfo == activeDownloads[n][fileId]
                chunkBuffer == base64ToArrayBuffer(data.chunkData)
                receivedChunks == ChunkStored(downloadInfo.receivedChunks,
                                              data.chunkIndex, chunkBuffer)
                stored == Put(activeDownloads[n], fileId,
                              [downloadInfo EXCEPT !.receivedChunks = receivedChunks])
                counted == fileId \in DOMAIN downloadProgress[n]
                progress == IF counted
                            THEN Put(downloadProgress[n], fileId,
                                     [downloadProgress[n][fileId] EXCEPT
                                        !.received = @ + byteLength(chunkBuffer)])
                            ELSE downloadProgress[n]
                progressEvent == IF counted
                                 THEN <<Emit(n, "fileTransfer", "download-progress", fileId)>>
                                 ELSE <<>>
                complete == Cardinality(DOMAIN receivedChunks) = downloadInfo.totalChunks
                missing == \E i \in 0..(downloadInfo.totalChunks - 1) :
                               i \notin DOMAIN receivedChunks
            IN  IF ~complete
                THEN /\ activeDownloads' = [activeDownloads EXCEPT ![n] = stored]
                     /\ downloadProgress' = [downloadProgress EXCEPT ![n] = progress]
                     /\ emitted' = progressEvent
                     /\ delivered' = <<>>
                     /\ UNCHANGED activeTransfers
                ELSE IF missing
                THEN /\ activeDownloads' = [activeDownloads EXCEPT ![n] = stored]
                     /\ downloadProgress' = [downloadProgress EXCEPT ![n] = progress]
                     /\ emitted' = progressEvent \o
                            <<Emit(n, "fileTransfer", "download-failed", fileId)>>
                     /\ delivered' = <<>>
                     /\ UNCHANGED activeTransfers
                ELSE /\ activeDownloads' = [activeDownloads EXCEPT ![n] = Del(stored, fileId)]
                     /\ activeTransfers' = [activeTransfers EXCEPT ![n] = @ \ {fileId}]
                     /\ downloadProgress' = [downloadProgress EXCEPT ![n] = Del(progress, fileId)]
                     /\ emitted' = progressEvent \o
                            <<Emit(n, "fileTransfer", "download-completed", fileId)>>
                     /\ delivered' = <<[id |-> fileId,
                                        content |-> Blob(ChunksInOrder(receivedChunks, 0,
                                                          downloadInfo.totalChunks))]>>
    /\ thrown' = ""
    /\ UNCHANGED <<uploadProgress, uploads, serverVars, nodeVars, now, ledgerVars, netVars, sharedFiles, availableFiles>>

cancelDownload(n, fileId) ==
    /\ IF fileId \in DOMAIN activeDownloads[n]
       THEN /\ activeDownloads' = [activeDownloads EXCEPT ![n] = Del(@, fileId)]
            /\ activeTransfers' = [activeTransfers EXCEPT ![n] = @ \ {fileId}]
            /\ downloadProgress' = [downloadProgress EXCEPT ![n] = Del(@, fileId)]
            /\ emitted' = <<Emit(n, "fileTransfer", "download-cancelled", fileId)>>
       ELSE /\ emitted' = <<>>
            /\ UNCHANGED <<activeDownloads, activeTransfers, downloadProgress>>
    /\ delivered' = <<>>
    /\ thrown' = ""
    /\ UNCHANGED <<uploadProgress, uploads, serverVars, nodeVars, now, ledgerVars, netVars, sharedFiles, availableFiles>>

\* ---------------------------------------------------------------- sessions
\* a SimplePeer object made for peerId: state is "live" from its making,
\* "failed" once it has raised 'error' and "destroyed" after destroy(); the
\* registry holds live objects only
Session(peerId, initiator, connected) ==
    [id |-> peerId, initiator |-> initiator, connected |-> connected,
     state |-> "live"]

\* the session objects of n whose callbacks setupPeerEvents bound to peerId:
\* the one the registry holds, and those that have left it
SessionsOf(n, peerId) ==
    {[session |-> MapGet(peers[n], peerId), registered |-> TRUE] :
        x \in IF MapHas(peers[n], peerId) THEN {peerId} ELSE {}}
      \cup {[session |-> d, registered |-> FALSE] :
               d \in {s \in BagToSet(detached[n]) : s.id = peerId}}

\* connectToPeer without the test of the dials in flight
connectToPeerAgain(n, peerId) ==
    /\ IF MapHas(peers[n], peerId) \/ peerId = nodeId[n]
       THEN UNCHANGED <<peers, connectionAttempts>>
       ELSE /\ connectionAttempts' = [connectionAttempts EXCEPT ![n] =
                   @ \cup {<<nodeId[n], peerId>>}]
            /\ peers' = [peers EXCEPT ![n] =
                            MapSet(@, Session(peerId, After(nodeId[n], peerId), FALSE))]
    /\ emitted' = <<>>
    /\ delivered' = <<>>
    /\ thrown' = ""
    /\ UNCHANGED <<uploadProgress, uploads, detached, serverVars, nodeVars, now, ledgerVars, inflight, sharedFiles, availableFiles,
                   downloadProgress, activeTransfers, activeDownloads>>

connectToPeer(n, peerId) ==
    /\ IF MapHas(peers[n], peerId) \/ peerId = nodeId[n]
          \/ <<nodeId[n], peerId>> \in connectionAttempts[n]
       THEN UNCHANGED <<peers, connectionAttempts>>
       ELSE /\ connectionAttempts' = [connectionAttempts EXCEPT ![n] =
                   @ \cup {<<nodeId[n], peerId>>}]
            /\ peers' = [peers EXCEPT ![n] =
                            MapSet(@, Session(peerId, After(nodeId[n], peerId), FALSE))]
    /\ emitted' = <<>>
    /\ delivered' = <<>>
    /\ thrown' = ""
    /\ UNCHANGED <<uploadProgress, uploads, detached, serverVars, nodeVars, now, ledgerVars, inflight, sharedFiles, availableFiles,
                   downloadProgress, activeTransfers, activeDownloads>>

\* handleOffer, were it to make a session for every offer: the session the
\* registry held for the peer leaves it
handleOfferFresh(n, from, to) ==
    /\ \E m \in DOMAIN peers \ {n} :
          /\ from \in {m} \cup NewIds
          /\ MapHas(peers[m], to)
          /\ MapGet(peers[m], to).initiator
          /\ ~MapGet(peers[m], to).connected
    /\ to = nodeId[n] /\ MapHas(peers[n], from)
          => BagCardinality(detached[n]) < MaxDetached
    /\ peers' = [peers EXCEPT ![n] =
                    IF to # nodeId[n] THEN @
                    ELSE MapSet(@, Session(from, FALSE, FALSE))]
    /\ detached' = [detached EXCEPT ![n] =
                       IF to # nodeId[n] \/ ~MapHas(peers[n], from) THEN @
                       ELSE @ (+) SetToBag({MapGet(peers[n], from)})]
    /\ emitted' = <<>>
    /\ delivered' = <<>>
    /\ thrown' = ""
    /\ UNCHANGED <<uploadProgress, uploads, serverVars, nodeVars, now, ledgerVars, connectionAttempts, inflight, sharedFiles,
                   availableFiles, downloadProgress, activeTransfers,
                   activeDownloads>>

\* handleOffer({from, to, signal}) on node n: the signaling server relays
\* the offer of an initiator session a node has made for the id to, under
\* the id from (its first id or one it has generated); node n drops the
\* offer when to is not the id it has now
handleOffer(n, from, to) ==
    /\ \E m \in DOMAIN peers \ {n} :
          /\ from \in {m} \cup NewIds
          /\ MapHas(peers[m], to)
          /\ MapGet(peers[m], to).initiator
          /\ ~MapGet(peers[m], to).connected
    /\ peers' = [peers EXCEPT ![n] =
                    IF to # nodeId[n] \/ MapHas(@, from) THEN @
                    ELSE MapSet(@, Session(from, FALSE, FALSE))]
    /\ emitted' = <<>>
    /\ delivered' = <<>>
    /\ thrown' = ""
    /\ UNCHANGED <<uploadProgress, uploads, detached, serverVars, nodeVars, now, ledgerVars, connectionAttempts, inflight, sharedFiles,
                   availableFiles, downloadProgress, activeTransfers,
                   activeDownloads>>

\* the file-offer frames FileTransferManager.handlePeerConnected sends
RECURSIVE OfferShared(_, _, _, _, _)
OfferShared(fl, ps, n, peerId, files) ==
    IF files = <<>> THEN fl
    ELSE OfferShared(sendToPeer(fl, ps, n, peerId,
                         [type |-> "file-offer", fileId |-> Head(files).id,
                          fileSize |-> Head(files).size,
                          fileHash |-> Head(files).hash]),
                     ps, n, peerId, Tail(files))

\* the 'connect' callback of the session object o of n, and the
\* peer-connected handlers of the file transfer and the ledger it runs; the
\* object connects with a live object the node that has or had the id of
\* the peer has made for an id n has or had, whether the registries still
\* hold them or not
PeerConnect(n, o) ==
    LET peerId == o.session.id
        opened == [o.session EXCEPT !.connected = TRUE]
        ps == IF o.registered THEN MapSet(peers[n], opened) ELSE peers[n]
    IN  /\ o \in SessionsOf(n, peerId)
        /\ o.session.state = "live"
        /\ ~o.session.connected
        /\ \E m \in DOMAIN peers \ {n}, x \in {n} \cup NewIds :
              /\ peerId \in {m} \cup NewIds
              /\ \E r \in SessionsOf(m, x) :
                    /\ r.session.state = "live"
                    /\ r.session.initiator # o.session.initiator
        /\ Room(n, Len(sharedFiles[n]) + 1)
        /\ peerId \in Range(whitelistedPeers[n]) => Len(syncTimer[n]) < MaxSync
        /\ peers' = [peers EXCEPT ![n] = ps]
        /\ detached' = [detached EXCEPT ![n] =
               IF o.registered THEN @
               ELSE (@ (-) SetToBag({o.session})) (+) SetToBag({opened})]
        /\ inflight' = sendToPeer(
                           OfferShared(inflight, ps, n, peerId, sharedFiles[n]),
                           ps, n, peerId,
                           [type |-> "blockchain-sync",
                            request |-> "get-latest-block"])
        /\ syncTimer' = [syncTimer EXCEPT ![n] =
                            IF peerId \in Range(whitelistedPeers[n])
                            THEN Append(@, peerId) ELSE @]
        /\ connectionAttempts' = [connectionAttempts EXCEPT ![n] =
               @ \ {<<nodeId[n], peerId>>}]
        /\ emitted' = <<Emit(n, "network", "peer-connected", peerId)>>
        /\ delivered' = <<>>
        /\ thrown' = ""
        /\ UNCHANGED <<serverVars, nodeVars, now, blockchain, mempool, whitelistedPeers, currentLeader,
                       isLeader, leaderTimer, blockTimer, consensusState,
                       pendingBlock, votes, voteTimer, fileVars>>

\* the setTimeout callback of handlePeerConnected: syncBlockchain(peerId);
\* timeouts of the same delay fire in the order they were armed
SyncTimeout(n, peerId) ==
    /\ syncTimer[n] # <<>>
    /\ Head(syncTimer[n]) = peerId
    /\ Room(n, 1)
    /\ syncTimer' = [syncTimer EXCEPT ![n] = Tail(@)]
    /\ inflight' = sendToPeer(inflight, peers[n], n, peerId,
                       [type |-> "blockchain-sync-request",
                        fromIndex |-> Len(blockchain[n])])
    /\ emitted' = <<>>
    /\ delivered' = <<>>
    /\ thrown' = ""
    /\ UNCHANGED <<uploadProgress, uploads, detached, serverVars, nodeVars, now, blockchain, mempool, whitelistedPeers, currentLeader,
                   isLeader, leaderTimer, blockTimer, consensusState,
                   pendingBlock, votes, voteTimer, peers, connectionAttempts,
                   sharedFiles, availableFiles, downloadProgress,
                   activeTransfers, activeDownloads>>

\* handleSyncRequest(peerId, {fromIndex}): the blocks of the chain from
\* fromIndex on are sent to the peer
handleSyncRequest(n, peerId, fromIndex) ==
    /\ Room(n, 1)
    /\ inflight' = sendToPeer(inflight, peers[n], n, peerId,
                       [type |-> "blockchain-sync-response",
                        blocks |-> SubSeq(blockchain[n], fromIndex + 1,
                                          Len(blockchain[n])),
                        totalBlocks |-> Len(blockchain[n])])
    /\ emitted' = <<>>
    /\ delivered' = <<>>
    /\ thrown' = ""
    /\ UNCHANGED <<now, nodeVars, ledgerVars, peers, connectionAttempts, detached,
                   fileVars, serverVars>>

\* handlePeerDisconnected without the emit of file-unavailable
UnavailableUnsaid(n, filesToRemove) == <<>>

\* the file-unavailable events of FileTransferManager.handlePeerDisconnected
\* for the catalog entries filesToRemove, in the order the catalog holds them
Unavailable(n, filesToRemove) ==
    [i \in 1..Len(filesToRemove) |->
        Emit(n, "fileTransfer", "file-unavailable", filesToRemove[i].id)]

\* the 'close' callback of the session object o of n, and the
\* peer-disconnected handlers of the file transfer and the ledger it runs:
\* peers.delete(peerId) deletes what the registry holds for the peer, o or
\* the session that has replaced it, which is not destroyed
PeerClose(n, o) ==
    LET peerId == o.session.id
        ps == MapDelete(peers[n], peerId)
        filesToRemove == SelectSeq(availableFiles[n],
                                   LAMBDA f : f.peerId = peerId)
        \* the session that has replaced o in the registry leaves it
        replaced == IF ~o.registered /\ MapHas(peers[n], peerId)
                    THEN SetToBag({MapGet(peers[n], peerId)})
                    ELSE EmptyBag
    IN  /\ o \in SessionsOf(n, peerId)
        /\ Room(n, 1)
        /\ peers' = [peers EXCEPT ![n] = ps]
        /\ detached' = [detached EXCEPT ![n] =
               IF o.registered THEN @
               ELSE (@ (-) SetToBag({o.session})) (+) replaced]
        /\ availableFiles' = [availableFiles EXCEPT ![n] =
               SelectSeq(@, LAMBDA f : f.peerId # peerId)]
        /\ emitted' = <<Emit(n, "network", "peer-disconnected", peerId)>>
                          \o Unavailable(n, filesToRemove)
        /\ IF peerId = currentLeader[n]
           THEN updateLeader(n, ps)
           ELSE UNCHANGED <<currentLeader, isLeader, blockTimer, inflight>>
        /\ delivered' = <<>>
        /\ thrown' = ""
        /\ UNCHANGED <<uploadProgress, uploads, serverVars, nodeVars, now, blockchain, mempool, whitelistedPeers, leaderTimer,
                       consensusState, pendingBlock, votes, voteTimer, syncTimer,
                       connectionAttempts, sharedFiles, downloadProgress,
                       activeTransfers, activeDownloads>>

\* the 'error' callback of the live session object o of n: peers.delete and
\* connectionAttempts.delete for its peer, and no event; the object that has
\* failed may raise 'close' later on
PeerError(n, o) ==
    LET peerId == o.session.id
        failed == [o.session EXCEPT !.state = "failed", !.connected = FALSE]
        \* the session that has replaced o in the registry leaves it
        replaced == IF ~o.registered /\ MapHas(peers[n], peerId)
                    THEN SetToBag({MapGet(peers[n], peerId)})
                    ELSE EmptyBag
        left == IF o.registered
                THEN detached[n] (+) SetToBag({failed})
                ELSE ((detached[n] (-) SetToBag({o.session}))
                         (+) SetToBag({failed})) (+) replaced
    IN  /\ o \in SessionsOf(n, peerId)
        /\ o.session.state = "live"
        /\ BagCardinality(left) <= MaxDetached
        /\ peers' = [peers EXCEPT ![n] = MapDelete(@, peerId)]
        /\ detached' = [detached EXCEPT ![n] = left]
        /\ connectionAttempts' = [connectionAttempts EXCEPT ![n] =
               @ \ {<<nodeId[n], peerId>>}]
        /\ emitted' = <<>>
        /\ delivered' = <<>>
        /\ thrown' = ""
        /\ UNCHANGED <<serverVars, nodeVars, now, ledgerVars, inflight, fileVars>>

\* disconnectPeer(peerId), called for a peer-left message of the signaling
\* server: the session is destroyed and deleted, and the peer-disconnected
\* handlers of the file transfer and the ledger run
disconnectPeer(n, peerId) ==
    /\ Room(n, 1)
    /\ MapHas(peers[n], peerId) => BagCardinality(detached[n]) < MaxDetached
    /\ IF ~MapHas(peers[n], peerId)
       THEN /\ emitted' = <<>>
            /\ UNCHANGED <<peers, detached, availableFiles, currentLeader,
                           isLeader, blockTimer, inflight>>
       ELSE LET ps == MapDelete(peers[n], peerId)
                filesToRemove == SelectSeq(availableFiles[n],
                                           LAMBDA f : f.peerId = peerId)
            IN  /\ peers' = [peers EXCEPT ![n] = ps]
                /\ detached' = [detached EXCEPT ![n] =
                       @ (+) SetToBag({[MapGet(peers[n], peerId) EXCEPT
                                           !.state = "destroyed",
                                           !.connected = FALSE]})]
                /\ availableFiles' = [availableFiles EXCEPT ![n] =
                       SelectSeq(@, LAMBDA f : f.peerId # peerId)]
                /\ emitted' = <<Emit(n, "network", "peer-disconnected", peerId)>>
                                  \o Unavailable(n, filesToRemove)
                /\ IF peerId = currentLeader[n]
                   THEN updateLeader(n, ps)
                   ELSE UNCHANGED <<currentLeader, isLeader, blockTimer, inflight>>
    /\ delivered' = <<>>
    /\ thrown' = ""
    /\ UNCHANGED <<serverVars, nodeVars, now, blockchain, mempool, whitelistedPeers, leaderTimer,
                   consensusState, pendingBlock, votes, voteTimer, syncTimer,
                   connectionAttempts, sharedFiles, downloadProgress,
                   activeTransfers, activeDownloads, uploadProgress, uploads>>

\* ---------------------------------------------------------- node lifecycle
\* startNode() up to its await: a node that is not running makes a WebSocket
\* to the signaling server (connectToSignalingServer, which arms its 10 s
\* timeout and overwrites this.signalingServer) and waits for its promise
startNode(n) ==
    /\ isRunning[n] \/ Len(webSockets[n]) < MaxStarts
    /\ IF isRunning[n]
       THEN UNCHANGED <<webSockets, signalingServer>>
       ELSE /\ webSockets' = [webSockets EXCEPT ![n] =
                   Append(@, [state |-> "connecting", awaited |-> TRUE,
                              timeout |-> TRUE, reconnect |-> FALSE])]
            /\ signalingServer' = [signalingServer EXCEPT ![n] =
                   Len(webSockets[n]) + 1]
    /\ emitted' = <<>>
    /\ delivered' = <<>>
    /\ thrown' = ""
    /\ UNCHANGED <<now, isRunning, heartbeatTimer, nodeId, ledgerVars, netVars,
                   fileVars, serverVars>>

\* the onopen callback of WebSocket s of n: it sends the registration on
\* this.signalingServer, which throws when that is null (TypeError) or a
\* WebSocket that is still connecting (InvalidStateError), and then resolves
\* the promise; the startNode that awaits it goes on: isRunning = true,
\* node-started, and startHeartbeat arms one more interval
SignalingOpen(n, s) ==
    /\ s \in 1..Len(webSockets[n])
    /\ webSockets[n][s].state = "connecting"
    /\ LET opened == [webSockets[n] EXCEPT ![s].state = "open"]
           current == signalingServer[n]
           sent == IF current = 0 THEN FALSE
                   ELSE opened[current].state # "connecting"
           started == sent /\ opened[s].awaited
       IN  /\ webSockets' = [webSockets EXCEPT ![n] =
                  IF sent THEN [opened EXCEPT ![s].awaited = FALSE]
                  ELSE opened]
           /\ isRunning' = [isRunning EXCEPT ![n] = @ \/ started]
           /\ heartbeatTimer' = [heartbeatTimer EXCEPT ![n] =
                  IF started THEN @ + 1 ELSE @]
           /\ emitted' = IF started
                         THEN <<Emit(n, "network", "node-started", n)>>
                         ELSE <<>>
           /\ thrown' = IF current = 0 THEN "TypeError"
                        ELSE IF ~sent THEN "InvalidStateError"
                        ELSE ""
    /\ delivered' = <<>>
    /\ UNCHANGED <<now, signalingServer, nodeId, ledgerVars, netVars, fileVars,
                   serverVars>>

\* the onerror callback of WebSocket s of n, whatever its readyState: it
\* rejects the promise, and the startNode that awaits it throws; the
\* rejection of a promise that is settled or that nothing awaits is dropped.
\* An error of a connection that is not made fails it, and its close event
\* is to come
SignalingError(n, s) ==
    /\ s \in 1..Len(webSockets[n])
    /\ webSockets' = [webSockets EXCEPT
           ![n][s].state = IF @ \in {"connecting", "failing"} THEN "closing"
                           ELSE @,
           ![n][s].awaited = FALSE]
    /\ emitted' = <<>>
    /\ delivered' = <<>>
    /\ thrown' = IF webSockets[n][s].awaited THEN "StartFailed" ELSE ""
    /\ UNCHANGED <<now, isRunning, heartbeatTimer, signalingServer, nodeId,
                   ledgerVars, netVars, fileVars, serverVars>>

\* the 10 s timeout that connectToSignalingServer armed with WebSocket s of
\* n: it reads the readyState of this.signalingServer, which throws when that
\* is null, and rejects the promise of s when it is not OPEN
SignalingTimeout(n, s) ==
    /\ s \in 1..Len(webSockets[n])
    /\ webSockets[n][s].timeout
    /\ LET current == signalingServer[n]
           rejects == IF current = 0 THEN FALSE
                      ELSE webSockets[n][current].state # "open"
       IN  /\ webSockets' = [webSockets EXCEPT
                  ![n][s].timeout = FALSE,
                  ![n][s].awaited = IF rejects THEN FALSE ELSE @]
           /\ thrown' = IF current = 0 THEN "TypeError"
                        ELSE IF rejects /\ webSockets[n][s].awaited
                             THEN "StartFailed"
                        ELSE ""
    /\ emitted' = <<>>
    /\ delivered' = <<>>
    /\ UNCHANGED <<now, isRunning, heartbeatTimer, signalingServer, nodeId,
                   ledgerVars, netVars, fileVars, serverVars>>

\* the onclose callback of WebSocket s of n, which the server or the network
\* closed when it was open, or whose close was under way: a running node
\* arms the 5 s timeout of its reconnection
SignalingClose(n, s) ==
    /\ s \in 1..Len(webSockets[n])
    /\ webSockets[n][s].state \in {"open", "closing"}
    /\ webSockets' = [webSockets EXCEPT ![n][s].state = "closed",
                                         ![n][s].reconnect = isRunning[n]]
    /\ emitted' = <<>>
    /\ delivered' = <<>>
    /\ thrown' = ""
    /\ UNCHANGED <<now, isRunning, heartbeatTimer, signalingServer, nodeId,
                   ledgerVars, netVars, fileVars, serverVars>>

\* the 5 s timeout that the onclose callback of WebSocket s of n armed:
\* connectToSignalingServer(), whose promise nothing awaits
Reconnect(n, s) ==
    /\ s \in 1..Len(webSockets[n])
    /\ webSockets[n][s].reconnect
    /\ Len(webSockets[n]) < MaxStarts
    /\ webSockets' = [webSockets EXCEPT ![n] =
           Append([@ EXCEPT ![s].reconnect = FALSE],
                  [state |-> "connecting", awaited |-> FALSE,
                   timeout |-> TRUE, reconnect |-> FALSE])]
    /\ signalingServer' = [signalingServer EXCEPT ![n] = Len(webSockets[n]) + 1]
    /\ emitted' = <<>>
    /\ delivered' = <<>>
    /\ thrown' = ""
    /\ UNCHANGED <<now, isRunning, heartbeatTimer, nodeId, ledgerVars, netVars,
                   fileVars, serverVars>>

\* regenerateNodeId(): a node that is not running takes a new random id,
\* which orders anywhere among the ids of its peers
regenerateNodeId(n) ==
    /\ IF isRunning[n]
       THEN /\ thrown' = "NodeRunning"
            /\ emitted' = <<>>
            /\ UNCHANGED nodeId
       ELSE \E id \in NewIds :
               /\ nodeId' = [nodeId EXCEPT ![n] = id]
               /\ emitted' = <<Emit(n, "network", "node-id-changed", id)>>
               /\ thrown' = ""
    /\ delivered' = <<>>
    /\ UNCHANGED <<now, isRunning, heartbeatTimer, webSockets, signalingServer,
                   ledgerVars, netVars, fileVars, serverVars>>

\* the peer-disconnected and file-unavailable events of disconnectPeer on
\* each session of ps in turn, for the catalog files
RECURSIVE Disconnected(_, _, _)
Disconnected(n, ps, files) ==
    IF ps = <<>> THEN <<>>
    ELSE LET peerId == Head(ps).id
             filesToRemove == SelectSeq(files, LAMBDA f : f.peerId = peerId)
         IN  <<Emit(n, "network", "peer-disconnected", peerId)>>
                 \o Unavailable(n, filesToRemove)
                 \o Disconnected(n, Tail(ps),
                                 SelectSeq(files, LAMBDA f : f.peerId # peerId))

\* stopNode(): disconnectPeer on every session, with the peer-disconnected
\* handlers of the file transfer and the ledger, then close() on
\* this.signalingServer, which becomes null, and isRunning = false; no
\* interval or timeout is cleared
stopNode(n) ==
    /\ Room(n, 1)
    /\ isRunning[n] =>
          BagCardinality(detached[n]) + Len(peers[n]) <= MaxDetached
    /\ IF ~isRunning[n]
       THEN /\ emitted' = <<>>
            /\ UNCHANGED <<isRunning, peers, detached, availableFiles,
                           currentLeader, isLeader, blockTimer, inflight,
                           webSockets, signalingServer>>
       ELSE LET ps == peers[n]
                lost == Ids(ps)
                led == {i \in 1..Len(ps) : ps[i].id = currentLeader[n]}
                current == signalingServer[n]
            IN  /\ isRunning' = [isRunning EXCEPT ![n] = FALSE]
                /\ webSockets' = [webSockets EXCEPT ![n] =
                       IF current = 0 THEN @
                       ELSE [@ EXCEPT ![current].state =
                                CASE @ = "connecting" -> "failing"
                                  [] @ = "open" -> "closing"
                                  [] OTHER -> @]]
                /\ signalingServer' = [signalingServer EXCEPT ![n] = 0]
                /\ peers' = [peers EXCEPT ![n] = <<>>]
                /\ detached' = [detached EXCEPT ![n] =
                       @ (+) SetToBag({[ps[i] EXCEPT !.state = "destroyed",
                                                     !.connected = FALSE] :
                                          i \in 1..Len(ps)})]
                /\ availableFiles' = [availableFiles EXCEPT ![n] =
                       SelectSeq(@, LAMBDA f : f.peerId \notin lost)]
                /\ emitted' = Disconnected(n, ps, availableFiles[n])
                                 \o <<Emit(n, "network", "node-stopped", n)>>
                /\ IF led # {}
                   THEN LET k == CHOOSE i \in led : \A j \in led : i <= j
                        IN  updateLeader(n, SubSeq(ps, k + 1, Len(ps)))
                   ELSE UNCHANGED <<currentLeader, isLeader, blockTimer, inflight>>
    /\ delivered' = <<>>
    /\ thrown' = ""
    /\ UNCHANGED <<now, heartbeatTimer, nodeId, blockchain, mempool, whitelistedPeers,
                   leaderTimer, consensusState, pendingBlock, votes, voteTimer,
                   syncTimer, connectionAttempts, sharedFiles, downloadProgress,
                   activeTransfers, activeDownloads, uploadProgress, uploads,
                   serverVars>>

\* one firing of an interval armed by startHeartbeat
HeartbeatTick(n) ==
    /\ heartbeatTimer[n] > 0
    /\ Room(n, 1)
    /\ inflight' = IF isRunning[n]
                   THEN broadcast(inflight, peers[n], n, [type |-> "ping"])
                   ELSE inflight
    /\ emitted' = <<>>
    /\ delivered' = <<>>
    /\ thrown' = ""
    /\ UNCHANGED <<now, detached, serverVars, nodeVars, ledgerVars, peers, connectionAttempts, fileVars>>

\* BlockchainManager.destroy()
destroy(n) ==
    /\ leaderTimer' = [leaderTimer EXCEPT ![n] = FALSE]
    /\ blockTimer' = [blockTimer EXCEPT ![n] = FALSE]
    /\ emitted' = <<>>
    /\ delivered' = <<>>
    /\ thrown' = ""
    /\ UNCHANGED <<now, serverVars, nodeVars, blockchain, mempool, whitelistedPeers,
                   currentLeader, isLeader, consensusState, pendingBlock, votes,
                   voteTimer, syncTimer, netVars, fileVars>>

\* the 'data' callback of a live session object of n with peerId, in the
\* registry or not: handlePeerMessage on the next frame, and the handlers
\* subscribed to what it emits
Deliver(n, peerId) ==
    /\ inflight[<<peerId, n>>] # <<>>
    /\ \E o \in SessionsOf(n, peerId) : o.session.state = "live"
    /\ Room(n, 1)
    /\ LET message == Head(inflight[<<peerId, n>>])
           taken == [inflight EXCEPT ![<<peerId, n>>] = Tail(@)]
       IN  CASE message.type = "file-offer" ->
                     LET r == FileOffer(n, availableFiles[n],
                                  [peerId |-> peerId, fileId |-> message.fileId,
                                   fileSize |-> message.fileSize,
                                   fileHash |-> message.fileHash])
                     IN  /\ availableFiles' = [availableFiles EXCEPT ![n] = r.files]
                         /\ emitted' = <<Emit(n, "network", "file-offer", message.fileId)>>
                                           \o r.events
                         /\ inflight' = taken
                         /\ UNCHANGED <<sharedFiles, uploadProgress, uploads>>
                [] message.type = "file-request" ->
                     LET r == FileRequest(taken, n, peerId, message.fileId)
                     IN  /\ inflight' = r.inflight
                         /\ sharedFiles' = [sharedFiles EXCEPT ![n] = r.sharedFiles]
                         /\ uploadProgress' = [uploadProgress EXCEPT ![n] =
                                r.uploadProgress]
                         /\ uploads' = [uploads EXCEPT ![n] = r.uploads]
                         /\ emitted' = <<Emit(n, "network", "file-request",
                                              message.fileId)>> \o r.events
                         /\ UNCHANGED availableFiles
                [] message.type = "transaction" ->
                     /\ emitted' = <<Emit(n, "network", "transaction-received",
                                          message.transaction.id)>>
                     /\ inflight' = taken
                     /\ UNCHANGED <<availableFiles, sharedFiles, uploadProgress, uploads>>
                [] message.type = "block" ->
                     /\ emitted' = <<Emit(n, "network", "block-received", peerId)>>
                     /\ inflight' = taken
                     /\ UNCHANGED <<availableFiles, sharedFiles, uploadProgress, uploads>>
                [] message.type = "blockchain-sync" ->
                     /\ emitted' = <<Emit(n, "network", "blockchain-sync", peerId)>>
                     /\ inflight' = taken
                     /\ UNCHANGED <<availableFiles, sharedFiles, uploadProgress, uploads>>
                [] message.type = "ping" ->
                     /\ emitted' = <<>>
                     /\ inflight' = sendToPeer(taken, peers[n], n, peerId,
                                        [type |-> "pong"])
                     /\ UNCHANGED <<availableFiles, sharedFiles, uploadProgress, uploads>>
                [] message.type = "pong" ->
                     /\ emitted' = <<Emit(n, "network", "peer-latency", peerId)>>
                     /\ inflight' = taken
                     /\ UNCHANGED <<availableFiles, sharedFiles, uploadProgress, uploads>>
                [] OTHER ->
                     /\ emitted' = <<>>
                     /\ inflight' = taken
                     /\ UNCHANGED <<availableFiles, sharedFiles, uploadProgress, uploads>>
    /\ delivered' = <<>>
    /\ thrown' = ""
    /\ UNCHANGED <<detached, serverVars, nodeVars, now, ledgerVars, peers,
                   connectionAttempts, downloadProgress, activeTransfers,
                   activeDownloads>>

\* a peer that is not modelled as a node takes the next frame n sent it
PeerTakes(peerId, n) ==
    /\ inflight[<<n, peerId>>] # <<>>
    /\ inflight' = [inflight EXCEPT ![<<n, peerId>>] = Tail(@)]
    /\ emitted' = <<>>
    /\ delivered' = <<>>
    /\ thrown' = ""
    /\ UNCHANGED <<detached, serverVars, nodeVars, now, ledgerVars, peers, connectionAttempts, fileVars>>

\* the wall clock advances
Tick ==
    /\ now < StartTime + MaxTime * leaderRotationInterval
    /\ now' = now + leaderRotationInterval
    /\ emitted' = <<>>
    /\ thrown' = ""
    /\ UNCHANGED <<serverVars, nodeVars, ledgerVars, netVars, fileVars>>
    /\ delivered' = <<>>

\* -------------------------------------------------------- signaling server
\* the messages broadcast(message, excludeNodeId) sends: one to every open
\* connection of the client Map cl but that of clientId, in the order of
\* the Map
serverBroadcast(cl, so, type, clientId) ==
    LET to == SelectSeq(cl, LAMBDA c : /\ c.id # clientId
                                       /\ so[c.ws].readyState = "open")
    IN  [i \in 1..Len(to) |-> <<to[i].ws, type, clientId>>]

\* wss.on('connection'): the server accepts the connection ws
handleConnection(ws) ==
    /\ sockets[ws].readyState = "none"
    /\ sockets' = [sockets EXCEPT ![ws].readyState = "open"]
    /\ signalled' = <<>>
    /\ emitted' = <<>>
    /\ delivered' = <<>>
    /\ thrown' = ""
    /\ UNCHANGED <<now, nodeVars, ledgerVars, netVars, fileVars, clients>>

\* the register branch of ws.on('message'), for {type: 'register', nodeId}
\* on a connection that is open or that the server is closing:
\* handleRegister, then the handlers of ws hold the nodeId as clientId (0 is
\* a message with no nodeId); send() drops what is for a connection that is
\* not open
handleRegister(ws, clientId) ==
    /\ sockets[ws].readyState \in {"open", "closing"}
    /\ LET isOpen == sockets[ws].readyState = "open" IN
       IF clientId = 0
       THEN /\ signalled' = IF isOpen
                            THEN <<<<ws, "error", "Node ID is required">>>>
                            ELSE <<>>
            /\ sockets' = [sockets EXCEPT ![ws].nodeId = 0]
            /\ UNCHANGED clients
       ELSE LET oldWs == MapGet(clients, clientId).ws
                closes == /\ MapHas(clients, clientId)
                          /\ oldWs # ws
                          /\ sockets[oldWs].readyState = "open"
                so == IF closes
                      THEN [sockets EXCEPT ![oldWs].readyState = "closing"]
                      ELSE sockets
                cl == MapSet(clients, [id |-> clientId, ws |-> ws])
                others == SelectSeq(cl, LAMBDA c : c.id # clientId)
                peerList == [i \in 1..Len(others) |-> others[i].id]
            IN  /\ clients' = cl
                /\ sockets' = [so EXCEPT ![ws].nodeId = clientId]
                /\ signalled' = (IF isOpen THEN <<<<ws, "peer-list", peerList>>>>
                                 ELSE <<>>)
                                    \o serverBroadcast(cl, so, "peer-joined", clientId)
    /\ emitted' = <<>>
    /\ delivered' = <<>>
    /\ thrown' = ""
    /\ UNCHANGED <<now, nodeVars, ledgerVars, netVars, fileVars>>

\* ws.on('message') for the text data on a connection that is open or that
\* the server is closing: data is the message it parses to, a record with
\* its fields (0 for a nodeId, from or to that is missing), or a text that
\* does not parse, a record without a type.  handleMessage dispatches on the
\* type: register, the signaling types (handleSignaling relays the message
\* to the open connection of its target, or tells the open connection of
\* its sender that the target is not available), get-peers
\* (handleGetPeers), ping (handlePing), and sendError for any other type
\* and for what does not parse; only register changes the client Map and
\* the nodeId the handlers of ws hold
handleMessage(ws, data) ==
    IF "type" \in DOMAIN data /\ data.type = "register"
    THEN handleRegister(ws, data.nodeId)
    ELSE
    /\ sockets[ws].readyState \in {"open", "closing"}
    /\ LET isOpen(id) == /\ MapHas(clients, id)
                         /\ sockets[MapGet(clients, id).ws].readyState = "open"
           send(c, type, payload) ==
               IF sockets[c].readyState = "open"
               THEN <<<<c, type, payload>>>> ELSE <<>>
       IN  signalled' =
              IF "type" \notin DOMAIN data
              THEN send(ws, "error", "Invalid message format")
              ELSE IF data.type \in {"offer", "answer", "ice-candidate"}
              THEN IF data.to = 0 \/ data.from = 0 THEN <<>>
                   ELSE IF isOpen(data.to)
                   THEN <<<<MapGet(clients, data.to).ws, data.type, data>>>>
                   ELSE IF isOpen(data.from)
                   THEN <<<<MapGet(clients, data.from).ws, "error",
                            "Target peer is not available">>>>
                   ELSE <<>>
              ELSE IF data.type = "get-peers"
              THEN LET others == SelectSeq(clients,
                                           LAMBDA c : c.id # data.nodeId)
                   IN  send(ws, "peer-list",
                            [i \in 1..Len(others) |-> others[i].id])
              ELSE IF data.type = "ping"
              THEN send(ws, "pong", now)
              ELSE send(ws, "error", "Unknown message type")
    /\ emitted' = <<>>
    /\ delivered' = <<>>
    /\ thrown' = ""
    /\ UNCHANGED <<now, nodeVars, ledgerVars, netVars, fileVars, clients,
                   sockets>>

\* ws.on('close'): the connection ws has closed, by its client or after the
\* server's close()
SocketClose(ws) ==
    /\ sockets[ws].readyState \in {"open", "closing"}
    /\ LET clientId == sockets[ws].nodeId
           so == [sockets EXCEPT ![ws].readyState = "closed"]
           cl == MapDelete(clients, clientId)
       IN  /\ sockets' = so
           /\ IF clientId # 0
              THEN /\ clients' = cl
                   /\ signalled' = serverBroadcast(cl, so, "peer-left", clientId)
              ELSE /\ signalled' = <<>>
                   /\ UNCHANGED clients
    /\ emitted' = <<>>
    /\ delivered' = <<>>
    /\ thrown' = ""
    /\ UNCHANGED <<now, nodeVars, ledgerVars, netVars, fileVars>>

\* ws.on('error'): the connection ws the server has accepted reports an
\* error; the nodeId its handlers hold leaves the client Map and nothing is
\* sent
SocketError(ws) ==
    /\ sockets[ws].readyState \in {"open", "closing"}
    /\ clients' = IF sockets[ws].nodeId # 0
                  THEN MapDelete(clients, sockets[ws].nodeId)
                  ELSE clients
    /\ signalled' = <<>>
    /\ emitted' = <<>>
    /\ delivered' = <<>>
    /\ thrown' = ""
    /\ UNCHANGED <<now, nodeVars, ledgerVars, netVars, fileVars, sockets>>

\* cleanup(), which an interval of one minute calls: the entries of the
\* client Map whose connection is not open are deleted
cleanup ==
    /\ clients' = SelectSeq(clients, LAMBDA c : sockets[c.ws].readyState = "open")
    /\ signalled' = <<>>
    /\ emitted' = <<>>
    /\ delivered' = <<>>
    /\ thrown' = ""
    /\ UNCHANGED <<now, nodeVars, ledgerVars, netVars, fileVars, sockets>>

\* stop(): close() on the connection of every entry of the client Map, the
\* Map is cleared and the server is closed: it accepts no connection any
\* more
stop ==
    /\ sockets' = [ws \in DOMAIN sockets |->
           IF sockets[ws].readyState = "none"
           THEN [sockets[ws] EXCEPT !.readyState = "refused"]
           ELSE IF /\ sockets[ws].readyState = "open"
                   /\ \E i \in 1..Len(clients) : clients[i].ws = ws
           THEN [sockets[ws] EXCEPT !.readyState = "closing"]
           ELSE sockets[ws]]
    /\ clients' = <<>>
    /\ signalled' = <<>>
    /\ emitted' = <<>>
    /\ delivered' = <<>>
    /\ thrown' = ""
    /\ UNCHANGED <<now, nodeVars, ledgerVars, netVars, fileVars>>

\* ------------------------------------------------------------------ inputs
\* what a caller or a peer may hand in as a transaction, for every id (0: no
\* id): signed by its sender Self, unsigned from the peer, from the peer with
\* a signature that does not verify; one with no sender, one with no
\* timestamp
TxInputs ==
    UNION {{MakeTx(i, Self, StartTime, Self), MakeTx(i, Peer, StartTime, 0),
            MakeTx(i, Peer, StartTime, Self)} : i \in 0..MaxTxId}
        \cup {MakeTx(1, 0, StartTime, 0), MakeTx(1, Self, 0, 0)}

\* what peer may send as a block to a node whose chain is chain: the blocks
\* that extend the tip, and blocks with one defect each
PeerBlocks(chain, peer) ==
    LET tip == chain[Len(chain)]
        h == Len(chain)
        good == MakeBlock(h, now, <<>>, tip.hash, peer, peer)
    IN  {MakeBlock(h, now, txs, tip.hash, peer, peer) :
            txs \in {<<>>} \cup {<<MakeTx(i, Peer, StartTime, 0)>> : i \in 1..MaxTxId}}
        \cup {MakeBlock(h, now, <<>>, tip.hash, peer, 0),
              MakeBlock(h + 1, now, <<>>, tip.hash, peer, peer),
              MakeBlock(h - 1, now, <<>>, tip.hash, peer, peer),
              MakeBlock(h, now, <<>>, <<"0">>, peer, peer),
              MakeBlock(h, now, <<>>, NoHash, peer, peer),
              MakeBlock(h, 0, <<>>, tip.hash, peer, peer),
              MakeBlock(h, now, <<>>, tip.hash, peer, Self),
              MakeBlock(h, now, <<MakeTx(1, peer, StartTime, Self)>>, tip.hash,
                        peer, peer),
              [good EXCEPT !.hash = NoHash],
              [good EXCEPT !.hash = <<"0">>]}

\* the blocks of a blockchain-sync-response: one block, or two of which the
\* second extends the first (the sender's chain) or extends what the
\* receiver holds once the first is dealt with
SyncBatches(chain, peer) ==
    {<<b>> : b \in PeerBlocks(chain, peer)}
        \cup UNION {{<<b1, NewBlock(Append(chain, b1), <<>>, now, peer)>>,
                     <<b1, NewBlock(IF validateBlock(chain, b1)
                                    THEN Append(chain, b1) ELSE chain,
                                    <<>>, now, peer)>>} :
                     b1 \in PeerBlocks(chain, peer)}

\* the WebSocket connections the signaling server accepts
Connections == 1..(MaxStarts + 1)

\* ------------------------------------------------------------ specification
Init ==
    /\ now = StartTime
    /\ blockchain = [n \in Nodes |-> <<createGenesisBlock(StartTime)>>]
    /\ mempool = [n \in Nodes |-> <<>>]
    /\ whitelistedPeers = [n \in Nodes |-> <<>>]
    /\ currentLeader = [n \in Nodes |-> NoLeader]
    /\ isLeader = [n \in Nodes |-> FALSE]
    /\ leaderTimer = [n \in Nodes |-> TRUE]
    /\ blockTimer = [n \in Nodes |-> FALSE]
    /\ consensusState = [n \in Nodes |-> "idle"]
    /\ pendingBlock = [n \in Nodes |-> NoBlock]
    /\ votes = [n \in Nodes |-> {}]
    /\ voteTimer = [n \in Nodes |-> 0]
    /\ syncTimer = [n \in Nodes |-> <<>>]
    /\ peers = [n \in Nodes \cup {Other} |-> <<>>]
    /\ connectionAttempts = [n \in Nodes \cup {Other} |-> {}]
    /\ inflight = [ch \in Nodes \X (Nodes \cup {Other}) |-> <<>>]
    /\ detached = [n \in Nodes \cup {Other} |-> EmptyBag]
    /\ isRunning = [n \in Nodes |-> FALSE]
    /\ heartbeatTimer = [n \in Nodes |-> 0]
    /\ webSockets = [n \in Nodes |-> <<>>]
    /\ signalingServer = [n \in Nodes |-> 0]
    /\ nodeId = [n \in Nodes \cup {Other} |-> n]
    /\ sharedFiles = [n \in Nodes |-> <<>>]
    /\ availableFiles = [n \in Nodes |-> <<>>]
    /\ downloadProgress = [n \in Nodes |-> EmptyMap]
    /\ activeTransfers = [n \in Nodes |-> {}]
    /\ activeDownloads = [n \in Nodes |-> EmptyMap]
    /\ uploadProgress = [n \in Nodes |-> EmptyMap]
    /\ uploads = [n \in Nodes |-> <<>>]
    /\ clients = <<>>
    /\ sockets = [c \in Connections |-> [readyState |-> "none", nodeId |-> 0]]
    /\ signalled = <<>>
    /\ delivered = <<>>
    /\ emitted = <<>>
    /\ thrown = ""

\* One node, its timers, its callers and what its peers may send it.
Next ==
    \/ \E tx \in TxInputs : submitTransaction(Self, tx)
    \/ \E p \in Nodes \ {Self}, tx \in TxInputs : handleTransaction(Self, p, tx)
    \/ addWhitelistedPeer(Self, Self)
    \/ LeaderTimerTick(Self)
    \/ BlockTimerTick(Self)
    \/ VoteTimeout(Self)
    \/ \E p \in Nodes \ {Self} :
          \E blocks \in SyncBatches(blockchain[Self], p) :
             /\ Len(ApplySync(blockchain[Self], <<>>, blocks).chain) <= MaxHeight
             /\ handleSyncResponse(Self, p, blocks)

Spec == Init /\ [][Next]_vars

\* Utils.generateUUID() returns an id the node has not used
FreshId(n, id) ==
    /\ id \notin Ids(mempool[n])
    /\ \A i \in 1..Len(blockchain[n]) : id \notin Ids(blockchain[n][i].transactions)

\* One node, whitelist of itself, that submits its transactions before its
\* first block production tick.
BatchSize == MaxTxId + 2

NextSingle ==
    \/ addWhitelistedPeer(Self, Self)
    \/ LeaderTimerTick(Self)
    \/ \E id \in 1..BatchSize :
          /\ Len(blockchain[Self]) = 1
          /\ consensusState[Self] = "idle"
          /\ voteTimer[Self] = 0
          /\ FreshId(Self, id)
          /\ submitTransaction(Self, createTransaction(Self, id, Self, now))
    \/ BlockTimerTick(Self)
    \/ VoteTimeout(Self)
    \/ Tick

SpecSingle == Init /\ [][NextSingle]_vars

\* both nodes hold the whitelist {A, B} and an open session with the other
Configured ==
    \A n \in Nodes :
        /\ Range(whitelistedPeers[n]) = Nodes
        /\ \A p \in Nodes \ {n} : Connected(n, p)

\* the rotation timer of a node of the configured pair fires
RotationTick(n) == Configured /\ LeaderTimerTick(n)

\* Two nodes that are given their whitelists and connect before their first
\* leader rotation tick, their timers and the frames between them.
NextNet ==
    \/ \E n \in Nodes, p \in Nodes : addWhitelistedPeer(n, p)
    \/ \E n \in Nodes : \E p \in Nodes \ {n} : connectToPeer(n, p)
    \/ \E n \in Nodes : \E p \in Nodes \ {n} : handleOffer(n, p, n)
    \/ \E n \in Nodes : \E p \in Nodes \ {n} :
          \E o \in SessionsOf(n, p) : PeerConnect(n, o)
    \/ \E n \in Nodes : \E p \in Nodes \ {n} : Deliver(n, p)
    \/ \E n \in Nodes : \E p \in Nodes \ {n} : SyncTimeout(n, p)
    \/ \E id \in 1..MaxTxId :
          /\ Configured
          /\ FreshId(Self, id)
          /\ submitTransaction(Self, createTransaction(Self, id, Self, StartTime))
    \/ \E n \in Nodes : RotationTick(n)
    \/ \E n \in Nodes : BlockTimerTick(n)
    \/ \E n \in Nodes : VoteTimeout(n)

\* timers fire and frames in flight arrive
SpecNet ==
    /\ Init
    /\ [][NextNet]_vars
    /\ \A n \in Nodes :
          /\ WF_vars(RotationTick(n))
          /\ WF_vars(BlockTimerTick(n))
          /\ WF_vars(VoteTimeout(n))
          /\ \A p \in Nodes \ {n} :
                /\ WF_vars(Deliver(n, p))
                /\ WF_vars(SyncTimeout(n, p))

\* what the peer offers, announces and sends for its file fileId
FileIds == 1..(maxConcurrentTransfers + 1)

FileSizeOf(fileId) == MaxChunks * chunkSize + 1 - fileId

OfferOf(peerId, fileId) ==
    [peerId |-> peerId, fileId |-> fileId, fileSize |-> FileSizeOf(fileId),
     fileHash |-> calculateFileHash(Bytes(fileId, 0, FileSizeOf(fileId)))]

MetadataInputs(ids) ==
    {[fileId |-> f, fileSize |-> FileSizeOf(f), totalChunks |-> t] :
        f \in ids, t \in 0..MaxChunks}

\* chunk chunkIndex of the file, as the source cuts it
ChunkOf(fileId, chunkIndex) ==
    Bytes(fileId, chunkIndex * chunkSize,
          Min((chunkIndex + 1) * chunkSize, FileSizeOf(fileId)))

\* the chunk frames a peer may send: the chunk of the file, other bytes of
\* the same length, and text that is not base64; chunkIndex MaxChunks is
\* past the end of every file
ChunkInputs(ids) ==
    UNION {{[fileId |-> f, chunkIndex |-> i,
             chunkData |-> arrayBufferToBase64(ChunkOf(f, i))],
            [fileId |-> f, chunkIndex |-> i,
             chunkData |-> arrayBufferToBase64(
                               Bytes(0, i * chunkSize,
                                     i * chunkSize + byteLength(ChunkOf(f, i))))],
            [fileId |-> f, chunkIndex |-> i, chunkData |-> <<"invalid">>]} :
           f \in ids, i \in 0..MaxChunks}

\* The session of the node with a peer that dials it
NextSession ==
    \/ connectToPeer(Peer, Self)
    \/ connectToPeer(Self, Peer)
    \/ handleOffer(Self, Peer, Self)
    \/ \E o \in SessionsOf(Self, Peer) : PeerConnect(Self, o)
    \/ \E o \in SessionsOf(Self, Peer) : PeerClose(Self, o)
    \/ PeerTakes(Peer, Self)

\* the peer offers its files in the order of their ids
OfferInOrder(n, fileId) ==
    fileId = 1 \/ fileId - 1 \in Ids(availableFiles[n])

\* One node, its session with a peer, the catalog and the downloads it
\* asks for.
NextFile ==
    \/ NextSession
    \/ \E f \in FileIds :
          OfferInOrder(Self, f) /\ handleFileOffer(Self, OfferOf(Peer, f))
    \/ \E f \in FileIds : requestFile(Self, f)
    \/ \E data \in MetadataInputs(FileIds) :
          data.totalChunks = MaxChunks /\ handleFileMetadata(Self, Peer, data)
    \/ \E f \in FileIds : cancelDownload(Self, f)

SpecFile == Init /\ [][NextFile]_vars

\* One node, its session with a peer, and the frames of the downloads the
\* peer serves.
DownloadIds == 1..MaxDownloads

ProgressRoom(n, data) ==
    IF data.fileId \notin DOMAIN downloadProgress[n] \/ ~IsBase64(data.chunkData)
    THEN TRUE
    ELSE downloadProgress[n][data.fileId].received
             + byteLength(base64ToArrayBuffer(data.chunkData))
           <= (MaxChunks + 1) * chunkSize

NextChunk ==
    \/ NextSession
    \/ \E f \in DownloadIds :
          OfferInOrder(Self, f) /\ handleFileOffer(Self, OfferOf(Peer, f))
    \/ \E f \in DownloadIds : requestFile(Self, f)
    \/ \E data \in MetadataInputs(DownloadIds) :
          handleFileMetadata(Self, Peer, data)
    \/ \E data \in ChunkInputs(DownloadIds) :
          /\ ProgressRoom(Self, data)
          /\ handleFileChunk(Self, Peer, data)
    \/ \E f \in DownloadIds : cancelDownload(Self, f)

SpecChunk == Init /\ [][NextChunk]_vars

WhitelistIds == Nodes \cup {Other}

\* the blocks a peer proposes on top of chain: one that extends the tip and
\* one that does not name the tip's hash
ProposalInputs(chain, peer) ==
    LET tip == chain[Len(chain)]
    IN  {MakeBlock(Len(chain), now, <<>>, tip.hash, peer, peer),
         MakeBlock(Len(chain), now, <<>>, <<"0">>, peer, peer)}

\* the votes a peer sends on the pending block of node n, in its own name
\* or in the name of n
VoteInputs(n, peer) ==
    IF pendingBlock[n] = NoBlock THEN {}
    ELSE {Vote(pendingBlock[n][1].hash, voter, approve) :
             voter \in {n, peer}, approve \in BOOLEAN}

\* the operator adds the node ids to the whitelist in their order
AddInOrder(n, p) ==
    \A q \in WhitelistIds : q < p => q \in Range(whitelistedPeers[n])

\* the callers of the node create their transactions one after the other
SubmitInOrder(n, id) ==
    /\ FreshId(n, id)
    /\ \A i \in (1..MaxTxId) : i < id => ~FreshId(n, i)

\* One node with its whitelist, its timers and what its callers and a
\* whitelisted peer hand to the handlers of the ledger during a vote window.
NextConsensus ==
    \/ \E p \in WhitelistIds :
          AddInOrder(Self, p) /\ addWhitelistedPeer(Self, p)
    \/ LeaderTimerTick(Self)
    \/ BlockTimerTick(Self)
    \/ VoteTimeout(Self)
    \/ Tick
    \/ \E id \in (1..MaxTxId) :
          /\ SubmitInOrder(Self, id)
          /\ submitTransaction(Self, createTransaction(Self, id, Self, StartTime))
    \/ handleTransaction(Self, Peer, MakeTx(MaxTxId + 1, Peer, StartTime, 0))
    \/ \E vote \in VoteInputs(Self, Peer) : handleBlockVote(Self, Peer, vote)
    \/ /\ Len(blockchain[Self]) < MaxHeight
       /\ handleSyncResponse(Self, Peer,
              <<NewBlock(blockchain[Self], <<>>, now, Peer)>>)

SpecConsensus == Init /\ [][NextConsensus]_vars

\* One node with its whitelist, the session a peer opens with it, its
\* timers and the block proposals and leader announcements that reach the
\* ledger within one leader slot.
NextProposal ==
    \/ connectToPeer(Peer, Self)
    \/ handleOffer(Self, Peer, Self)
    \/ \E o \in SessionsOf(Self, Peer) : PeerConnect(Self, o)
    \/ PeerTakes(Peer, Self)
    \/ \E p \in WhitelistIds :
          AddInOrder(Self, p) /\ addWhitelistedPeer(Self, p)
    \/ LeaderTimerTick(Self)
    \/ BlockTimerTick(Self)
    \/ VoteTimeout(Self)
    \/ \E p \in WhitelistIds \ {Self} :
          \E block \in ProposalInputs(blockchain[Self], p) :
             handleBlockProposal(Self, p, block)
    \/ \E leader \in WhitelistIds :
          handleLeaderAnnouncement(Self, Peer, leader, Len(blockchain[Self]))
    \/ SyncTimeout(Self, Peer)

SpecProposal == Init /\ [][NextProposal]_vars

\* One node whose operator adds ids to the whitelist and removes them, its
\* timers, its session with a peer and the leader announcements of the peer.
NextWhitelist ==
    \/ NextSession
    \/ \E p \in Nodes : addWhitelistedPeer(Self, p)
    \/ \E p \in Nodes : removeWhitelistedPeer(Self, p)
    \/ LeaderTimerTick(Self)
    \/ BlockTimerTick(Self)
    \/ VoteTimeout(Self)
    \/ Tick
    \/ \E leader \in Nodes :
          handleLeaderAnnouncement(Self, Peer, leader, Len(blockchain[Self]))
    \/ SyncTimeout(Self, Peer)

SpecWhitelist == Init /\ [][NextWhitelist]_vars

\* the files two peers advertise
CatalogIds == 1..(MaxDownloads + 1)

Advertisers == {Peer, Other}

\* One node, its session with a peer and the offers that reach its catalog
\* in the name of that peer and of another.
NextCatalog ==
    \/ NextSession
    \/ \E p \in Advertisers : \E f \in CatalogIds :
          handleFileOffer(Self, OfferOf(p, f))

SpecCatalog == Init /\ [][NextCatalog]_vars

\* One node that downloads the first file of a peer, which may send every
\* chunk frame again and after the download has ended.
SpecResend ==
    Init /\ [][\/ connectToPeer(Peer, Self)
               \/ handleOffer(Self, Peer, Self)
               \/ \E o \in SessionsOf(Self, Peer) : PeerConnect(Self, o)
               \/ PeerTakes(Peer, Self)
               \/ handleFileOffer(Self, OfferOf(Peer, 1))
               \/ requestFile(Self, 1)
               \/ \E data \in MetadataInputs({1}) :
                     data.totalChunks = MaxChunks /\ handleFileMetadata(Self, Peer, data)
               \/ \E data \in ChunkInputs({1}) :
                     /\ ProgressRoom(Self, data)
                     /\ handleFileChunk(Self, Peer, data)]_vars

\* Two nodes that are given their whitelists in any order and run their
\* rotation, block and vote timers while the clock passes through the slots;
\* the second sends the first proposals and votes that carry no hash.
NextSchedule ==
    \/ \E n \in Nodes, p \in Nodes : addWhitelistedPeer(n, p)
    \/ \E n \in Nodes : LeaderTimerTick(n)
    \/ \E n \in Nodes : BlockTimerTick(n)
    \/ \E n \in Nodes : VoteTimeout(n)
    \/ Tick
    \/ \E hash \in {NoHash, EmptyHash} :
          \/ handleBlockProposal(Self, Peer,
                 [NewBlock(blockchain[Self], <<>>, now, Peer) EXCEPT !.hash = hash])
          \/ handleBlockVote(Self, Peer, Vote(hash, Peer, TRUE))

SpecSchedule == Init /\ [][NextSchedule]_vars

\* One validator of a whitelist of up to three, its session with a second
\* validator and its timers while the clock passes through the slots.  The
\* validator is not running and may take a new id, once; the two dial each
\* other, the peer under the id the validator has, and the session may drop.
NextFailover ==
    \/ connectToPeer(Peer, nodeId[Self])
    \/ \E to \in {Self} \cup NewIds : handleOffer(Self, Peer, to)
    \/ connectToPeer(Self, Peer)
    \/ \E o \in SessionsOf(Self, Peer) : PeerConnect(Self, o)
    \/ \E o \in SessionsOf(Self, Peer) : PeerClose(Self, o)
    \/ PeerTakes(Peer, Self)
    \/ \E p \in WhitelistIds : AddInOrder(Self, p) /\ addWhitelistedPeer(Self, p)
    \/ LeaderTimerTick(Self)
    \/ BlockTimerTick(Self)
    \/ VoteTimeout(Self)
    \/ Tick
    \/ SyncTimeout(Self, Peer)
    \/ \E fromIndex \in 0..MaxHeight : handleSyncRequest(Self, Peer, fromIndex)
    \/ nodeId[Self] = Self /\ regenerateNodeId(Self)

SpecFailover == Init /\ [][NextFailover]_vars

\* One node, its sessions with a peer, which may connect, close and fail
\* in and out of the registry, and the catalog of the files the peers
\* advertise.
SpecTransport ==
    Init /\ [][\/ NextCatalog
               \/ \E o \in SessionsOf(Self, Peer) : PeerError(Self, o)]_vars

\* A started node and its session with a peer that takes every frame and
\* answers none; the heartbeat interval keeps firing and the peer keeps
\* reading.  The node may ask for a new id, before and after its start, and
\* takes one once; the two dial each other, the peer under the id the node
\* has.
NextSilent ==
    \/ startNode(Self)
    \/ \E s \in 1..MaxStarts :
          \/ SignalingOpen(Self, s)
          \/ SignalingError(Self, s)
          \/ SignalingTimeout(Self, s)
          \/ SignalingClose(Self, s)
          \/ Reconnect(Self, s)
    \/ nodeId[Self] = Self /\ regenerateNodeId(Self)
    \/ connectToPeer(Peer, nodeId[Self])
    \/ \E to \in {Self} \cup NewIds : handleOffer(Self, Peer, to)
    \/ connectToPeer(Self, Peer)
    \/ \E o \in SessionsOf(Self, Peer) : PeerConnect(Self, o)
    \/ HeartbeatTick(Self)
    \/ PeerTakes(Peer, Self)
    \/ \E f \in CatalogIds : handleFileOffer(Self, OfferOf(Peer, f))
    \/ Tick

SpecSilent ==
    /\ Init
    /\ [][NextSilent]_vars
    /\ WF_vars(HeartbeatTick(Self))
    /\ WF_vars(PeerTakes(Peer, Self))

\* A node that is started and stopped, with a session, its heartbeat and
\* the timers of its ledger, which destroy() clears.
NextLifecycle ==
    \/ startNode(Self)
    \/ \E s \in 1..MaxStarts :
          \/ SignalingOpen(Self, s)
          \/ SignalingError(Self, s)
          \/ SignalingTimeout(Self, s)
          \/ SignalingClose(Self, s)
          \/ Reconnect(Self, s)
    \/ stopNode(Self)
    \/ \E o \in SessionsOf(Self, Peer) : PeerClose(Self, o)
    \/ destroy(Self)
    \/ HeartbeatTick(Self)
    \/ connectToPeer(Peer, Self)
    \/ handleOffer(Self, Peer, Self)
    \/ \E o \in SessionsOf(Self, Peer) : PeerConnect(Self, o)
    \/ PeerTakes(Peer, Self)
    \/ addWhitelistedPeer(Self, Self)
    \/ LeaderTimerTick(Self)
    \/ BlockTimerTick(Self)
    \/ VoteTimeout(Self)

SpecLifecycle == Init /\ [][NextLifecycle]_vars

\* the sizes of the files a node shares: empty, one byte, one chunk, one
\* byte more than MaxChunks chunks, and 200 KiB
ShareSizes == {0, 1, chunkSize, MaxChunks * chunkSize + 1, 200 * 1024}

\* A node that shares files and serves them to the peer that dials it, one
\* request at a time; the peer reads what it was sent when the upload has
\* ended.
SpecUpload ==
    Init /\ [][\/ connectToPeer(Peer, Self)
               \/ handleOffer(Self, Peer, Self)
               \/ \E o \in SessionsOf(Self, Peer) : PeerConnect(Self, o)
               \/ uploads[Self] = <<>> /\ PeerTakes(Peer, Self)
               \/ \E fileId \in (1..MaxDownloads), size \in ShareSizes :
                     /\ \A i \in (1..MaxDownloads) : i < fileId => MapHas(sharedFiles[Self], i)
                     /\ shareFile(Self, fileId, Bytes(fileId, 0, size))
               \/ \E fileId \in (1..MaxDownloads) \cup {MaxDownloads + 1} :
                     /\ Connected(Self, Peer)
                     /\ inflight[<<Self, Peer>>] = <<>>
                     /\ uploads[Self] = <<>>
                     /\ \A i \in 1..Len(sharedFiles[Self]) :
                           sharedFiles[Self][i].downloadCount < MaxDownloads
                     /\ handleFileRequest(Self, Peer, fileId)
               \/ sendFileResume(Self, 1)
               \/ ChunkReadError(Self, 1)]_vars

\* Two nodes that are given their whitelists and connect before their first
\* leader rotation tick, their timers and the frames between them, while the
\* clock passes through the slots.
SpecAgreement == Init /\ [][NextNet \/ Tick]_vars

\* A node that shares one file and serves it to the two peers that dial it,
\* the runs of sendFile interleaving at their suspensions.
SpecConcurrent ==
    Init /\ [][\/ \E p \in {Peer, Other} :
                    \/ connectToPeer(p, Self)
                    \/ handleOffer(Self, p, Self)
                    \/ \E o \in SessionsOf(Self, p) : PeerConnect(Self, o)
                    \/ PeerTakes(p, Self)
                    \/ /\ Connected(Self, p)
                       /\ \A i \in 1..Len(uploads[Self]) : uploads[Self][i].peerId # p
                       /\ IF MapHas(sharedFiles[Self], 1)
                          THEN MapGet(sharedFiles[Self], 1).downloadCount < MaxDownloads
                          ELSE inflight[<<Self, p>>] = <<>>
                       /\ Len(inflight[<<Self, p>>]) < MaxQueue
                       /\ handleFileRequest(Self, p, 1)
               \/ /\ sharedFiles[Self] = <<>>
                  /\ \E size \in ShareSizes \ {200 * 1024} :
                        shareFile(Self, 1, Bytes(1, 0, size))
               \/ \E i \in 1..MaxDownloads + 1 :
                     /\ \A p \in {Peer, Other} : inflight[<<Self, p>>] = <<>>
                     /\ \/ sendFileResume(Self, i)
                        \/ ChunkReadError(Self, i)]_vars

\* One node, its sessions with a peer that leaves and dials again, their
\* 'close' events in and out of the registry, and the catalog.
SpecRedial ==
    Init /\ [][\/ NextCatalog
               \/ disconnectPeer(Self, Peer)]_vars

\* The signaling server, the connections it accepts, the messages that
\* arrive on them (registrations, signaling messages between the nodes,
\* requests for the peer list, pings, a message of no known type and a text
\* that does not parse), their closes and errors, its cleanup interval and
\* its stop.
SpecSignaling ==
    Init /\ [][\/ \E ws \in Connections :
                     \/ handleConnection(ws)
                     \/ \E data \in
                           {[type |-> "register", nodeId |-> id] :
                               id \in {0} \cup Nodes}
                             \cup {[type |-> t, from |-> f, to |-> x] :
                                      t \in {"offer", "answer", "ice-candidate"},
                                      f \in {0} \cup Nodes, x \in {0} \cup Nodes}
                             \cup {[type |-> "get-peers", nodeId |-> id] :
                                      id \in {0} \cup Nodes}
                             \cup {[type |-> "ping"], [type |-> "status"],
                                   [text |-> "{"]} :
                           handleMessage(ws, data)
                     \/ SocketClose(ws)
                     \/ SocketError(ws)
                  \/ cleanup
                  \/ stop]_vars

\* Two connected nodes: the peer shares a file of no byte (file 1) and a
\* file of one byte (file 2), the node asks for each once, and the frames
\* in flight arrive on the sessions; the peer answers the file-request
\* frames that reach it.
SpecEmpty ==
    /\ Init
    /\ [][\/ connectToPeer(Peer, Self)
          \/ handleOffer(Self, Peer, Self)
          \/ \E o \in SessionsOf(Self, Peer) : PeerConnect(Self, o)
          \/ \E o \in SessionsOf(Peer, Self) : PeerConnect(Peer, o)
          \/ \E f \in CatalogIds :
                \/ shareFile(Peer, f, Bytes(f, 0, f - 1))
                \/ f \notin activeTransfers[Self] /\ requestFile(Self, f)
          \/ Deliver(Self, Peer)
          \/ Deliver(Peer, Self)
          \/ sendFileResume(Peer, 1)
          \/ ChunkReadError(Peer, 1)]_vars
    /\ WF_vars(Deliver(Self, Peer))
    /\ WF_vars(Deliver(Peer, Self))
    /\ WF_vars(sendFileResume(Peer, 1))

\* Two connected nodes: the peer shares a file and stops sharing it, the
\* node asks for it once, and the frames in flight arrive; the peer answers
\* the file-request frame that reaches it.
SpecExchange ==
    /\ Init
    /\ [][\/ connectToPeer(Peer, Self)
          \/ handleOffer(Self, Peer, Self)
          \/ \E o \in SessionsOf(Self, Peer) : PeerConnect(Self, o)
          \/ \E o \in SessionsOf(Peer, Self) : PeerConnect(Peer, o)
          \/ shareFile(Peer, 1, Bytes(1, 0, 1))
          \/ stopSharingFile(Peer, 1)
          \/ 1 \notin activeTransfers[Self] /\ requestFile(Self, 1)
          \/ Deliver(Self, Peer)
          \/ Deliver(Peer, Self)
          \/ sendFileResume(Peer, 1)
          \/ ChunkReadError(Peer, 1)]_vars
    /\ WF_vars(Deliver(Self, Peer))
    /\ WF_vars(Deliver(Peer, Self))
    /\ WF_vars(sendFileResume(Peer, 1))

\* ------------------------------------------------------------------ claims
ChainTxIds(n) ==
    UNION {Ids(blockchain[n][i].transactions) : i \in 1..Len(blockchain[n])}

\* C1: in every reachable state every block after the genesis block names
\* the hash of the block before it and carries its own position as index,
\* whatever local commits and sync responses were applied.
C1_ChainLinkage ==
    \A n \in Nodes : \A i \in 2..Len(blockchain[n]) :
        /\ blockchain[n][i].previousHash = blockchain[n][i - 1].hash
        /\ blockchain[n][i].index = i - 1

\* a chain that holds a block the node proposed and committed itself
C1_Witness ==
    /\ Len(blockchain[Self]) >= 2
    /\ blockchain[Self][Len(blockchain[Self])].author = Self
    /\ Emitted(Self, "blockchain", "block-added", Len(blockchain[Self]) - 1)

\* C2: no step shortens a chain or changes a block it holds, and every
\* block a step appends extends the tip it is put on (index = height,
\* previousHash = hash of the tip); any other received block leaves the
\* chain as it was.
C2_AppendOnly ==
    [][\A n \in Nodes :
          /\ Len(blockchain[n]) <= Len(blockchain'[n])
          /\ SubSeq(blockchain'[n], 1, Len(blockchain[n])) = blockchain[n]
          /\ \A k \in (Len(blockchain[n]) + 1)..Len(blockchain'[n]) :
                /\ blockchain'[n][k].index = k - 1
                /\ blockchain'[n][k].previousHash = blockchain'[n][k - 1].hash]_vars

\* a chain that holds a block received from the peer in a sync response
C2_Witness ==
    \E i \in 2..Len(blockchain[Self]) : blockchain[Self][i].author = Peer

\* C3: no transaction id of the mempool is the id of a transaction of a
\* block of the chain.
C3_MempoolDisjoint ==
    \A n \in Nodes : Ids(mempool[n]) \cap ChainTxIds(n) = {}

\* C4: once the nodes are connected, both hold the whitelist of the two and
\* the leader has proposed a block with a submitted transaction, eventually
\* both chains are the same, with that block, and both mempools are empty.
C4_QuorumCommit ==
    (/\ Configured
     /\ \E n \in Nodes :
          /\ isLeader[n]
          /\ pendingBlock[n] # NoBlock
          /\ pendingBlock[n][1].transactions # <<>>)
    ~> (/\ blockchain[Self] = blockchain[Peer]
        /\ Len(blockchain[Self]) >= 2
        /\ \A n \in Nodes : mempool[n] = <<>>)

\* C5: a node that receives a transaction frame from a peer holds the
\* transaction in its mempool (or, once committed, in its chain).
C5_ReceivedInMempool ==
    \A n \in Nodes : \A id \in 1..MaxTxId :
        Emitted(n, "network", "transaction-received", id)
            => id \in Ids(mempool[n]) \cup ChainTxIds(n)

\* C6: the step that commits the first block of the single node puts into
\* chain[1] exactly the transactions submitted before the first block
\* production tick (those of the mempool), makes the chain two blocks long
\* and leaves the mempool empty.
C6_SingleNodeBatch ==
    [][(Len(blockchain[Self]) = 1 /\ Len(blockchain'[Self]) > 1)
          => /\ Len(blockchain'[Self]) = 2
             /\ Ids(blockchain'[Self][2].transactions) = Ids(mempool[Self])
             /\ Len(blockchain'[Self][2].transactions) = Len(mempool[Self])
             /\ mempool'[Self] = <<>>]_vars

\* the first block committed with the whole batch in it
C6_Witness ==
    /\ Len(blockchain[Self]) = 2
    /\ Ids(blockchain[Self][2].transactions) = 1..BatchSize
    /\ Len(blockchain[Self][2].transactions) = BatchSize
    /\ mempool[Self] = <<>>
    /\ Emitted(Self, "blockchain", "block-added", 1)

\* C7: a node never has more than maxConcurrentTransfers downloads active,
\* and a request made while that many are active ends in an error and
\* leaves the active transfers and the progress map as they were.
C7_DownloadCap ==
    /\ [](\A n \in Nodes :
            Cardinality(activeTransfers[n]) <= maxConcurrentTransfers)
    /\ [][\A f \in FileIds :
            (/\ Cardinality(activeTransfers[Self]) >= maxConcurrentTransfers
             /\ requestFile(Self, f))
                => /\ thrown' # ""
                   /\ UNCHANGED <<activeTransfers, downloadProgress>>]_vars

\* a request refused while three downloads are active
C7_Witness ==
    /\ Cardinality(activeTransfers[Self]) = maxConcurrentTransfers
    /\ DOMAIN downloadProgress[Self] = activeTransfers[Self]
    /\ thrown = "TooManyTransfers"

\* C8: a file handed over at the end of a download has the hash its offer
\* carried.
C8_HashVerified ==
    \A i \in 1..Len(delivered) :
        (/\ Emitted(Self, "fileTransfer", "download-completed", delivered[i].id)
         /\ delivered[i].id \in Ids(availableFiles[Self]))
            => calculateFileHash(delivered[i].content)
                   = MapGet(availableFiles[Self], delivered[i].id).hash

\* C9: the step in which the session with the source of an active download
\* closes removes the download from the active transfers and emits
\* download-failed for it.
C9_SourceLost ==
    [][\A f \in FileIds :
          (/\ f \in activeTransfers[Self]
           /\ f \in Ids(availableFiles[Self])
           /\ MapGet(availableFiles[Self], f).peerId = Peer
           /\ MapHas(peers[Self], Peer)
           /\ ~MapHas(peers'[Self], Peer))
              => /\ f \notin activeTransfers'[Self]
                 /\ \E i \in 1..Len(emitted') :
                       emitted'[i] = Emit(Self, "fileTransfer", "download-failed", f)]_vars

\* C10: cancelDownload of a download that a request started leaves the file
\* id in neither the active transfers nor the progress map.
C10_CancelDrops ==
    [][\A f \in FileIds :
          (f \in activeTransfers[Self] /\ cancelDownload(Self, f))
              => /\ f \notin activeTransfers'[Self]
                 /\ f \notin DOMAIN downloadProgress'[Self]]_vars

\* C11: a block proposal handed to the ledger by a peer that is not the
\* node's current leader changes nothing: no vote is recorded, no frame is
\* sent, and chain, mempool, pending block and consensus state stay as they
\* were.
C11_NonLeaderProposal ==
    [][\A p \in WhitelistIds \ {Self} :
          \A block \in ProposalInputs(blockchain[Self], p) :
             (p # currentLeader[Self] /\ handleBlockProposal(Self, p, block))
                => UNCHANGED <<votes, inflight, blockchain, mempool,
                               consensusState, pendingBlock>>]_vars

\* the leader is Other, the node is connected to Peer and has voted on the
\* leader's proposals and on no block that Peer authored
C11_Witness ==
    /\ currentLeader[Self] = Other
    /\ Connected(Self, Peer)
    /\ \E v \in votes[Self] : v.voter = Self /\ v.blockHash[6] = Other
    /\ \A v \in votes[Self] : v.blockHash[6] # Peer

\* C12: a node whose whitelist is empty has no leader and is not leader,
\* and no step it takes with an empty whitelist proposes a block or appends
\* one to its chain.
C12_EmptyWhitelist ==
    /\ [](\A n \in Nodes :
            whitelistedPeers[n] = <<>>
                => currentLeader[n] = NoLeader /\ ~isLeader[n])
    /\ [][\A n \in Nodes :
            whitelistedPeers[n] = <<>>
                => /\ pendingBlock'[n] # NoBlock => pendingBlock[n] # NoBlock
                   /\ Len(blockchain'[n]) = Len(blockchain[n])]_vars

\* C13: a transaction id that enters the mempool while a block is pending
\* is not among the transactions of the pending block, the pending block
\* is not changed while it is pending, and the step that ends the vote
\* window by appending a block appends the pending block as it was proposed
\* and leaves in the mempool every transaction that is not in that block.
C13_LateTransaction ==
    [][\A n \in Nodes :
          pendingBlock[n] # NoBlock =>
             LET block == pendingBlock[n][1] IN
             /\ pendingBlock'[n] # NoBlock => pendingBlock'[n] = pendingBlock[n]
             /\ \A id \in Ids(mempool'[n]) \ Ids(mempool[n]) :
                   id \notin Ids(block.transactions)
             /\ (pendingBlock'[n] = NoBlock /\ Len(blockchain'[n]) > Len(blockchain[n]))
                   => /\ blockchain'[n] = Append(blockchain[n], block)
                      /\ \A i \in 1..Len(mempool[n]) :
                            mempool[n][i].id \notin Ids(block.transactions)
                               => \E j \in 1..Len(mempool'[n]) :
                                     mempool'[n][j] = mempool[n][i]]_vars

\* the node has just committed its block with the transaction it held when
\* it proposed, and still holds the transaction that came during the window
C13_Witness ==
    /\ Len(blockchain[Self]) >= 2
    /\ LET block == blockchain[Self][Len(blockchain[Self])]
       IN  /\ block.author = Self
           /\ block.transactions # <<>>
           /\ Emitted(Self, "blockchain", "block-added", block.index)
           /\ mempool[Self] # <<>>
           /\ Ids(mempool[Self]) \cap Ids(block.transactions) = {}

\* the approve votes node n has recorded for blockHash, and the approvals
\* the claim requires of it
Approvals(n, blockHash) ==
    Cardinality({v \in votes[n] : v.blockHash = blockHash /\ v.approve})

Required(n) == Max(minVotes, Ceil(Len(whitelistedPeers[n]), 2))

\* the step of node n that ends the vote window of its pending block
WindowEnds(n) ==
    /\ voteTimer'[n] < voteTimer[n]
    /\ consensusState[n] = "proposing"
    /\ pendingBlock[n] # NoBlock

\* C14 as stated: the step that ends the vote window of a pending block
\* appends the block to the chain if and only if the approve votes recorded
\* for its hash number at least max(minVotes, ceil(|whitelist| / 2)), and
\* otherwise leaves the chain as it is; either way it clears the pending
\* block and returns the consensus state to idle.
C14_VoteThreshold ==
    [][\A n \in Nodes :
          WindowEnds(n)
             => LET block == pendingBlock[n][1] IN
                /\ IF Approvals(n, block.hash) >= Required(n)
                   THEN blockchain'[n] = Append(blockchain[n], block)
                   ELSE blockchain'[n] = blockchain[n]
                /\ pendingBlock'[n] = NoBlock
                /\ consensusState'[n] = "idle"]_vars

\* C14 amended: the step that ends the vote window appends the pending
\* block if and only if its approve votes number at least
\* max(minVotes, ceil(|whitelist| / 2)) and the block still extends the tip
\* of the chain (index = height, previousHash = hash of the tip); either
\* way it clears the pending block and returns the consensus state to idle.
C14_VoteThresholdOnTip ==
    [][\A n \in Nodes :
          WindowEnds(n)
             => LET block == pendingBlock[n][1]
                    tip == blockchain[n][Len(blockchain[n])]
                IN
                /\ IF /\ Approvals(n, block.hash) >= Required(n)
                      /\ block.index = Len(blockchain[n])
                      /\ block.previousHash = tip.hash
                   THEN blockchain'[n] = Append(blockchain[n], block)
                   ELSE blockchain'[n] = blockchain[n]
                /\ pendingBlock'[n] = NoBlock
                /\ consensusState'[n] = "idle"]_vars

\* a vote window has ended with one approval where two were required: the
\* votes on the node's block for the next height are still recorded, the
\* block is neither pending nor in the chain
C14_Witness ==
    /\ pendingBlock[Self] = NoBlock
    /\ consensusState[Self] = "idle"
    /\ voteTimer[Self] = 0
    /\ Required(Self) = 2
    /\ \E v \in votes[Self] :
          /\ v.blockHash[6] = Self
          /\ v.blockHash[1] = Len(blockchain[Self])
          /\ v.blockHash[4] = blockchain[Self][Len(blockchain[Self])].hash
          /\ Approvals(Self, v.blockHash) = 1

\* C15: the transaction of the peer handed to handleTransaction a second
\* time, when the node holds it from its first receipt in its mempool or in
\* a block of its chain, leaves the mempool as it is, sends no frame and
\* emits no transaction-received event.
C15_DuplicateTransaction ==
    [][LET tx == MakeTx(MaxTxId + 1, Peer, StartTime, 0)
       IN  (/\ handleTransaction(Self, Peer, tx)
            /\ (MapHas(mempool[Self], tx.id) \/ tx.id \in ChainTxIds(Self)))
              => /\ UNCHANGED <<mempool, inflight>>
                 /\ emitted' = <<>>]_vars

\* C16: an offer for a file id the catalog holds, from the peer that
\* advertised it or from another, leaves the catalog as it is and emits no
\* file-available event.
C16_DuplicateOffer ==
    [][\A p \in Advertisers : \A f \in CatalogIds :
          (/\ f \in Ids(availableFiles[Self])
           /\ handleFileOffer(Self, OfferOf(p, f)))
             => /\ UNCHANGED availableFiles
                /\ \A i \in 1..Len(emitted') : emitted'[i][3] # "file-available"]_vars

\* the catalog holds a file of each advertiser and the last step, which
\* closed no session, emitted nothing
C16_Witness ==
    /\ \E f \in CatalogIds : \E g \in CatalogIds :
          /\ f \in Ids(availableFiles[Self])
          /\ g \in Ids(availableFiles[Self])
          /\ MapGet(availableFiles[Self], f).peerId = Peer
          /\ MapGet(availableFiles[Self], g).peerId = Other
    /\ Connected(Self, Peer)
    /\ emitted = <<>>

\* C18: the step in which the session with a peer closes removes from the
\* catalog exactly the offers that peer advertised, emits file-unavailable
\* for each of them and for no other file, and leaves the offers of other
\* peers as they were.
C18_PeerOffersDropped ==
    [][(MapHas(peers[Self], Peer) /\ ~MapHas(peers'[Self], Peer))
          => LET gone == {f \in Ids(availableFiles[Self]) :
                             MapGet(availableFiles[Self], f).peerId = Peer}
             IN  /\ Ids(availableFiles'[Self]) = Ids(availableFiles[Self]) \ gone
                 /\ \A f \in Ids(availableFiles'[Self]) :
                       MapGet(availableFiles'[Self], f) = MapGet(availableFiles[Self], f)
                 /\ \A f \in CatalogIds :
                       f \in gone <=>
                          \E i \in 1..Len(emitted') :
                             emitted'[i] = Emit(Self, "fileTransfer",
                                                "file-unavailable", f)]_vars

\* the session with Peer has just closed, its offer is gone with a
\* file-unavailable event and the offer of Other is still in the catalog
C18_Witness ==
    /\ Emitted(Self, "network", "peer-disconnected", Peer)
    /\ \E f \in CatalogIds : \E g \in CatalogIds :
          /\ Emitted(Self, "fileTransfer", "file-unavailable", f)
          /\ f \notin Ids(availableFiles[Self])
          /\ g \in Ids(availableFiles[Self])
          /\ MapGet(availableFiles[Self], g).peerId = Other


\* C17: a file-chunk whose index the download has already received leaves the
\* set of received chunk indices of that download unchanged, and a file-chunk
\* for a file with no download in progress (the transfer has completed) changes
\* no state, emits no event and delivers no file.
C17_DuplicateChunk ==
    [][\A data \in ChunkInputs({1}) :
          handleFileChunk(Self, Peer, data) =>
             LET f == data.fileId IN
             IF f \notin DOMAIN activeDownloads[Self]
             THEN /\ UNCHANGED <<nodeVars, now, ledgerVars, netVars, fileVars>>
                  /\ emitted' = <<>>
                  /\ delivered' = <<>>
             ELSE data.chunkIndex \in DOMAIN activeDownloads[Self][f].receivedChunks =>
                     /\ f \in DOMAIN activeDownloads'[Self]
                     /\ DOMAIN activeDownloads'[Self][f].receivedChunks
                          = DOMAIN activeDownloads[Self][f].receivedChunks]_vars

\* the first chunk of a two-chunk download has been received twice: its bytes
\* are counted twice while one index is held
C17_Witness ==
    /\ 1 \in DOMAIN activeDownloads[Self]
    /\ 1 \in DOMAIN downloadProgress[Self]
    /\ activeDownloads[Self][1].totalChunks = MaxChunks
    /\ DOMAIN activeDownloads[Self][1].receivedChunks = {0}
    /\ downloadProgress[Self][1].received = 2 * chunkSize


\* C19: in every reachable state a node has at most one session object per
\* peer id, however its own dials and the offers that arrive from the same
\* peer interleave: its registry holds at most one session per id, and no
\* live session object of the node is outside its registry.
C19_OneSessionPerPeer ==
    \A n \in Nodes :
        /\ \A i, j \in 1..Len(peers[n]) :
              peers[n][i].id = peers[n][j].id => i = j
        /\ \A d \in BagToSet(detached[n]) : d.state # "live"

\* the node has dialled the peer and holds the one session object the offer
\* the peer has made for it is signalled to
C19_Witness ==
    /\ <<Self, Peer>> \in connectionAttempts[Self]
    /\ SessionsOf(Self, Peer) =
          {[session |-> Session(Peer, FALSE, FALSE), registered |-> TRUE]}
    /\ MapHas(peers[Peer], Self)
    /\ MapGet(peers[Peer], Self).initiator
    /\ ~MapGet(peers[Peer], Self).connected


\* C20: the leader a node computes at a rotation tick is the member of its
\* whitelist, in insertion order W, at position (h + slot) mod |W| for its
\* chain height h and the time slot of the clock, and the node is leader
\* exactly when that member is its own id; two nodes with the same W, h and slot
\* therefore compute the same leader.
C20_LeaderSchedule ==
    [][\A n \in Nodes :
          (LeaderTimerTick(n) /\ whitelistedPeers[n] # <<>>) =>
             LET W == whitelistedPeers[n]
                 h == Len(blockchain[n])
                 slot == now \div leaderRotationInterval
             IN  /\ currentLeader'[n] = W[((h + slot) % Len(W)) + 1]
                 /\ isLeader'[n] = (currentLeader'[n] = nodeId[n])]_vars

\* both nodes hold the same two-member whitelist and the same height past the
\* genesis block, and hold the scheduled member as their leader
C20_Witness ==
    LET W == whitelistedPeers[Self]
        h == Len(blockchain[Self])
        slot == now \div leaderRotationInterval
    IN  /\ Len(W) = 2
        /\ whitelistedPeers[Peer] = W
        /\ h > 1
        /\ Len(blockchain[Peer]) = h
        /\ \A n \in Nodes :
              /\ currentLeader[n] = W[((h + slot) % 2) + 1]
              /\ isLeader[n] = (currentLeader[n] = nodeId[n])


\* C21: with the whitelist {A, B, C}, when the session with the current
\* leader B closes, the leader the node holds after its peer-disconnected
\* handler has run is one of the two remaining validators, never B.
C21_LeaderFailover ==
    [][\A o \in SessionsOf(Self, Peer) :
        (/\ PeerClose(Self, o)
         /\ Range(whitelistedPeers[Self]) = WhitelistIds
         /\ currentLeader[Self] = Peer)
           => currentLeader'[Self] \in WhitelistIds \ {Peer}]_vars


\* C22: a transport error on a session with a peer removes the session
\* from the registry and emits peer-disconnected for that peer.
C22_TransportError ==
    [][\A o \in SessionsOf(Self, Peer) :
          PeerError(Self, o)
             => /\ ~MapHas(peers'[Self], Peer)
                /\ \E i \in 1..Len(emitted') :
                      emitted'[i] = Emit(Self, "network", "peer-disconnected",
                                         Peer)]_vars


\* C23: an open session of a running node whose peer answers none of the
\* heartbeat pings is torn down: it leaves the registry.
C23_MissedPongs ==
    (isRunning[Self] /\ Connected(Self, Peer)) ~> ~MapHas(peers[Self], Peer)


\* C24: when stopNode has stopped a running node, none of its recurring
\* timers is armed: no heartbeat interval, no leader rotation interval and
\* no block production interval.
C24_TimersCancelled ==
    [][(isRunning[Self] /\ stopNode(Self)) =>
          /\ heartbeatTimer'[Self] = 0
          /\ ~leaderTimer'[Self]
          /\ ~blockTimer'[Self]]_vars


\* the bytes carried by the frames of a transfer after its metadata frame
RECURSIVE ChunkBytes(_)
ChunkBytes(frames) ==
    IF frames = <<>> THEN 0
    ELSE byteLength(base64ToArrayBuffer(Head(frames).chunkData))
             + ChunkBytes(Tail(frames))

\* the answer to a file-request for a shared file of size S from a connected
\* peer is framed: when the upload completes the peer has been sent one
\* file-metadata frame, then ceil(S / 65536) file-chunk frames with the
\* indices 0, 1, ... whose bytes sum to S, and download_count is one more;
\* the last of the chunks of a 200 KiB file carries last bytes
Framed(last) ==
    \A fileId \in (1..MaxDownloads) :
        (/\ MapHas(sharedFiles[Self], fileId)
         /\ \E k \in 1..Len(emitted') :
               emitted'[k] = Emit(Self, "fileTransfer", "upload-completed", fileId))
          => LET S == MapGet(sharedFiles[Self], fileId).size
                 frames == SelectSeq(inflight'[<<Self, Peer>>],
                               LAMBDA m : /\ m.type \in {"file-metadata", "file-chunk"}
                                          /\ m.fileId = fileId)
                 count == (S + chunkSize - 1) \div chunkSize
             IN  /\ Len(frames) = 1 + count
                 /\ frames[1].type = "file-metadata"
                 /\ frames[1].totalChunks = count
                 /\ \A i \in 1..count :
                       /\ frames[i + 1].type = "file-chunk"
                       /\ frames[i + 1].chunkIndex = i - 1
                 /\ ChunkBytes(Tail(frames)) = S
                 /\ MapGet(sharedFiles'[Self], fileId).downloadCount
                       = MapGet(sharedFiles[Self], fileId).downloadCount + 1
                 /\ S = 200 * 1024 =>
                       /\ count = 4
                       /\ ChunkBytes(<<frames[5]>>) = last
                       /\ MapGet(sharedFiles[Self], fileId).downloadCount = 0
                             => MapGet(sharedFiles'[Self], fileId).downloadCount = 1

\* C25 as stated: file transfer framing, the last chunk of a 200 KiB file
\* carrying 3,072 bytes.
C25_Framing ==
    [][Framed(3072)]_vars

\* C25 amended: file transfer framing, the last chunk of a 200 KiB file
\* carrying 8,192 bytes.
C25_FramingLastChunk ==
    [][Framed(200 * 1024 - 3 * chunkSize)]_vars

\* the peer has been sent the five frames of a 200 KiB file, the last with
\* 8,192 bytes, and the file counts one download
C25_Witness ==
    \E i \in 1..Len(sharedFiles[Self]) :
        /\ sharedFiles[Self][i].size = 200 * 1024
        /\ sharedFiles[Self][i].downloadCount = 1
        /\ Len(inflight[<<Self, Peer>>]) = 5
        /\ inflight[<<Self, Peer>>][1].type = "file-metadata"
        /\ inflight[<<Self, Peer>>][5].type = "file-chunk"
        /\ inflight[<<Self, Peer>>][5].isLastChunk
        /\ ChunkBytes(<<inflight[<<Self, Peer>>][5]>>) = 8192


\* C26: no block of the chain the node holds contains an unsigned
\* transaction whose from field is not the node itself.
C26_UnsignedForeign ==
    \A i \in 1..Len(blockchain[Self]) :
        \A j \in 1..Len(blockchain[Self][i].transactions) :
            LET tx == blockchain[Self][i].transactions[j]
            IN  tx.signature = NoSig => tx.from = Self


\* C27: when a sync response is applied, the blocks before the first one
\* that fails validation against the tip are appended in order and no block
\* after it is.
C27_SyncAborts ==
    [][\A p \in Nodes \ {Self} :
          \A blocks \in SyncBatches(blockchain[Self], p) :
             handleSyncResponse(Self, p, blocks) =>
                \A k \in 1..Len(blocks) :
                   LET chain == blockchain[Self]
                       before(i) == chain \o SubSeq(blocks, 1, i - 1)
                   IN  (/\ \A i \in 1..(k - 1) : validateBlock(before(i), blocks[i])
                        /\ ~validateBlock(before(k), blocks[k]))
                          => blockchain'[Self] = before(k)]_vars


\* C28: a node that takes a blockchain-sync-request frame of a peer answers
\* it with a blockchain-sync-response frame that carries its chain from the
\* requested index on.
C28_CatchUp ==
    [][\A n \in Nodes : \A p \in Nodes \ {n} :
          (/\ Deliver(n, p)
           /\ Head(inflight[<<p, n>>]).type = "blockchain-sync-request")
             => LET request == Head(inflight[<<p, n>>])
                    sent == inflight'[<<n, p>>]
                IN  /\ sent # <<>>
                    /\ sent[Len(sent)].type = "blockchain-sync-response"
                    /\ sent[Len(sent)].blocks
                          = SubSeq(blockchain[n], request.fromIndex + 1,
                                   Len(blockchain[n]))]_vars


\* C29: a leader-announcement changes currentLeader only if the peer that
\* sent it is whitelisted and the claimed height is at least the local
\* height, and the leader then held is that peer.
C29_AnnouncementAccepted ==
    [][\A leader \in WhitelistIds :
          (/\ handleLeaderAnnouncement(Self, Peer, leader, Len(blockchain[Self]))
           /\ currentLeader'[Self] # currentLeader[Self])
             => /\ Peer \in Range(whitelistedPeers[Self])
                /\ currentLeader'[Self] = Peer]_vars


\* C30: the block production timer of the node is armed exactly while the
\* node is leader.
C30_TimerWhileLeader ==
    blockTimer[Self] <=> isLeader[Self]

\* C31: connectToPeer changes neither the registry nor the dials in flight
\* when a session for the peer exists or a dial to it is in flight, and the
\* dial in flight for a peer is cleared when a session object made for the
\* peer connects and when one reports a transport error, whether the
\* registry still holds the object or not.
C31_DialOnce ==
    [][/\ (/\ connectToPeer(Self, Peer)
           /\ (\/ MapHas(peers[Self], Peer)
               \/ <<nodeId[Self], Peer>> \in connectionAttempts[Self]))
             => UNCHANGED <<peers, connectionAttempts>>
       /\ \A o \in SessionsOf(Self, Peer) :
             /\ PeerConnect(Self, o)
                   => <<nodeId[Self], Peer>> \notin connectionAttempts'[Self]
             /\ PeerError(Self, o)
                   => <<nodeId[Self], Peer>> \notin connectionAttempts'[Self]]_vars

\* a session object of the peer that a 'close' of an earlier one took out
\* of the registry has connected, and no dial to the peer is in flight
C31_Witness ==
    /\ \E o \in SessionsOf(Self, Peer) :
          /\ ~o.registered
          /\ o.session.state = "live"
          /\ o.session.connected
    /\ <<Self, Peer>> \notin connectionAttempts[Self]
    /\ Emitted(Self, "network", "peer-connected", Peer)

\* C32: two nodes that hold the same whitelist hold the same block at every
\* index present in both chains.
C32_Agreement ==
    whitelistedPeers[Self] = whitelistedPeers[Peer] =>
        \A i \in 1..Min(Len(blockchain[Self]), Len(blockchain[Peer])) :
            blockchain[Self][i] = blockchain[Peer][i]

\* C33: a vote the node records on a block-vote of a peer is recorded under
\* the id of the peer that sent it.
C33_VoteAttribution ==
    [][\A vote \in VoteInputs(Self, Peer) :
          handleBlockVote(Self, Peer, vote) =>
             \A v \in votes'[Self] \ votes[Self] : v.voter = Peer]_vars

\* C34: a run of sendFile that goes on while its requester is connected
\* does not end with upload-failed, whatever other run for the same file
\* has ended before.
C34_ConcurrentUploads ==
    [][\A i \in 1..Len(uploads[Self]) :
          (sendFileResume(Self, i) /\ Connected(Self, uploads[Self][i].peerId))
             => \A k \in 1..Len(emitted') : emitted'[k][3] # "upload-failed"]_vars

\* C36: whenever a dial to a peer is in flight, the registry holds a
\* session for that peer.
C36_MarkerHasSession ==
    \A key \in connectionAttempts[Self] : MapHas(peers[Self], key[2])

\* C35: the 'close' event of a session object that has left the registry
\* leaves the session the registry holds for the same peer by then in the
\* registry.
C35_StaleClose ==
    [][\A o \in SessionsOf(Self, Peer) :
          (PeerClose(Self, o) /\ ~o.registered /\ MapHas(peers[Self], Peer))
             => MapHas(peers'[Self], Peer)]_vars

\* C37: when the connection a nodeId was registered on closes after the
\* nodeId has been registered again on another connection, the client map
\* still maps the nodeId to the new connection and no peer-left is sent.
C37_ReRegistration ==
    [][\A ws \in Connections :
          LET clientId == sockets[ws].nodeId
          IN  (/\ SocketClose(ws)
               /\ MapHas(clients, clientId)
               /\ MapGet(clients, clientId).ws # ws)
                 => /\ MapHas(clients', clientId)
                    /\ MapGet(clients', clientId) = MapGet(clients, clientId)
                    /\ \A k \in 1..Len(signalled') :
                          signalled'[k][2] # "peer-left"]_vars

\* C38: a download of the file of no byte that has been requested ends: its
\* slot in the active transfers is released.
C38_EmptyDownload ==
    (1 \in activeTransfers[Self]) ~> (1 \notin activeTransfers[Self])

\* C39: when the node takes a file-error frame of the peer, the download of
\* that file leaves its active transfers and its progress map.
C39_FileError ==
    [][(/\ Deliver(Self, Peer)
        /\ Head(inflight[<<Peer, Self>>]).type = "file-error")
          => LET fileId == Head(inflight[<<Peer, Self>>]).fileId
             IN  /\ fileId \notin activeTransfers'[Self]
                 /\ fileId \notin DOMAIN downloadProgress'[Self]]_vars


\* C40: once the peer has stopped sharing a file the catalog of the node
\* lists, and its file-unavailable frame is on the way to the node, the
\* catalog of the node eventually no longer lists the file, unless the peer
\* shares it again.
C40_Unavailable ==
    (/\ 1 \in Ids(availableFiles[Self])
     /\ \E i \in 1..Len(inflight[<<Peer, Self>>]) :
           inflight[<<Peer, Self>>][i].type = "file-unavailable")
       ~> (1 \notin Ids(availableFiles[Self]) \/ MapHas(sharedFiles[Peer], 1))

====
